---------------------------- MODULE Spec2Model ----------------------------
(***************************************************************************)
(* A model of the prose NLP pipeline: the greedy BIO chunker, the maximum  *)
(* entropy (GIS) named-entity classifier with its log2-space arithmetic,   *)
(* the joint-feature vocabulary, and the perceptron tagger's decoding.     *)
(*                                                                         *)
(* A string is the sequence of its characters, each a one-character TLA+   *)
(* string, so that splitting, joining, slicing and rewriting are computed  *)
(* as the code computes them.                                              *)
(***************************************************************************)
EXTENDS Integers, Sequences, FiniteSets, TLC

VARIABLES
    \* entityExtracter.chunk (part_000:162-191)
    cTokens,    \* the argument: the pre-labeled tokens
    cPos,       \* number of tokens the range loop has consumed
    end,        \* the expected continuation label
    parts,      \* the tokens of the open span
    idx,        \* the code's own count of the open span's tokens
    entities,   \* the entities emitted so far
    cPc,        \* "idle" | "loop" | "done"
    partsAt,    \* for each pointer in parts, the position of its token
    emitted,    \* for each entity emitted, the positions of its tokens
    \* PerceptronTagger.Tag (tag.go:322-358)
    tagger,     \* pt.model: classes, tagMap, linearWeights
    tTokens,    \* the argument: tokens, whose Tag field Tag writes in place
    context,    \* the normalized words between the START and END sentinels
    tPos,       \* the loop variable i
    p1,         \* the tag given to the previous token
    p2,         \* the tag given to the token before that
    tPc,        \* "idle" | "loop" | "done"
    \* encode(corpus) and the classifier it returns (part_000:514-538, 82-88)
    corpus,     \* the argument: the feature tuples with their true labels
    vPos,       \* number of corpus entries the range loop has consumed
    vState,     \* the locals mapping, count and labels
    classifier, \* cardinality, labels, mapping, weights and the scratch buf
    call,       \* the last encode or encodeGIS call: its name and arguments
    encoded,    \* the encoding that call returned
    calls,      \* number of calls made
    vPc,        \* "idle" | "build" | "ready"
    \* one call of addLogs, newMappedProbDist or probClassify
    lOp,        \* the function called
    lx,         \* addLogs: the argument x
    ly,         \* addLogs: the argument y
    lDict,      \* newMappedProbDist: the argument dict
    lModel,     \* probClassify: the receiver's model
    lFeatures,  \* probClassify: the argument features
    lSum,       \* the float addLogs returned
    lDist,      \* the distribution newMappedProbDist or probClassify returned
    lPc,        \* "idle" | "call" | "done"
    \* extracterFromData (part_000:302-346)
    gCorpus,    \* the argument: the training corpus
    gModel,     \* encoding, the model of the classifier being trained
    empfreq,    \* the log2 of the empirical count of every index
    unattested, \* the indices whose empirical count is zero
    est,        \* the count vector of the estCount call under way
    gEntry,     \* number of corpus entries that call has consumed
    gRound,     \* the rounds completed
    gPc,        \* "idle" | "start" | "round" | "trained" | "done"
    \* entityExtracter.classify (part_000:367-385)
    kModel,     \* the receiver's model
    kTokens,    \* the argument: tokens, whose Label field classify writes
    kHistory,   \* the local history
    kPos,       \* the loop variable i
    kPc,        \* "idle" | "loop" | "done"
    \* two runs of extracterFromData (part_000:302-346)
    runCorpus,  \* the argument of both: the training corpus
    runOrders,  \* for each run, the order its map range loops take
    runs,       \* for each run, its model, est, empfreq and unattested
    runEntry,   \* number of corpus entries estCount has consumed
    runRound,   \* the rounds completed
    runPc,      \* "idle" | "start" | "round" | "trained" | "done"
    \* Model.Write, ModelFromDisk, ModelFromFS (part_002:258-323)
    fsys,       \* the file system
    assets,     \* the state of each embedded tagger asset
    held,       \* the Model the program holds, the receiver of Write
    dCall,      \* the last call made
    dRet,       \* what it returned: a Model or nil, an error or nil
    dCalls,     \* the number of calls made
    \* the body of the loop of makeCorpus (part_000:291-297)
    aTokens,    \* tokens: the tagged tokens of the record's text
    aEntity,    \* entry: the training record
    aHistory,   \* history: the labels assignLabels returned
    aCorpus,    \* corpus
    aPc,        \* "idle" | "assign" | "extract" | "done"
    \* two goroutines in byteJoin on one classifier (part_000:193-206)
    jBuf,       \* m.buf, the scratch buffer of the classifier
    jArgs,      \* for each goroutine, the arguments a, b, c of its call
    jRes,       \* for each goroutine, res
    jPc,        \* for each goroutine, the statement it is at
    \* iterTokenizer.doSplit (part_004:121-159)
    sSpan,      \* the argument: the span to split
    sToken,     \* token: what is left of the span
    sTokens,    \* tokens: the texts of the tokens added so far
    sSuffs,     \* suffs: the texts of the suffixes cut off so far
    sLast,      \* last: the rune count of token at the previous iteration
    sOut,       \* the texts of the tokens returned
    sPc,        \* "idle" | "call" | "loop" | "break" | "done"
    \* Tokenize followed by Tag (part_000:293)
    xText,      \* the argument of Tokenize
    xTagger,    \* pt.model of the tagger
    xHeap,      \* the Tokens allocated, a *Token being an index into them
    xToks,      \* the slice of *Token that Tokenize returned
    xChosen,    \* for each position Tag has processed, the tag chosen there
    xP1,        \* Tag's p1
    xP2,        \* Tag's p2
    xPc         \* "idle" | "tokenize" | "tag" | "done"

chunkVars == <<cTokens, cPos, end, parts, idx, entities, cPc, partsAt, emitted>>
tagVars == <<tagger, tTokens, context, tPos, p1, p2, tPc>>

encodeVars == <<corpus, vPos, vState, classifier, call, encoded, calls, vPc>>

logsVars == <<lOp, lx, ly, lDict, lModel, lFeatures, lSum, lDist, lPc>>

gisVars == <<gCorpus, gModel, empfreq, unattested, est, gEntry, gRound, gPc>>

classifyVars == <<kModel, kTokens, kHistory, kPos, kPc>>

runsVars == <<runCorpus, runOrders, runs, runEntry, runRound, runPc>>

diskVars == <<fsys, assets, held, dCall, dRet, dCalls>>

labelVars == <<aTokens, aEntity, aHistory, aCorpus, aPc>>

joinVars == <<jBuf, jArgs, jRes, jPc>>

splitVars == <<sSpan, sToken, sTokens, sSuffs, sLast, sOut, sPc>>

textVars == <<xText, xTagger, xHeap, xToks, xChosen, xP1, xP2, xPc>>

vars ==
    <<chunkVars, tagVars, encodeVars, logsVars, gisVars, classifyVars,
      runsVars, diskVars, labelVars, joinVars, splitVars, textVars>>

\* What a component's steps leave alone: the other components' state.
notChunk ==
    <<tagVars, encodeVars, logsVars, gisVars, classifyVars,
      runsVars, diskVars, labelVars, joinVars, splitVars,
      textVars>>
notTag ==
    <<chunkVars, encodeVars, logsVars, gisVars, classifyVars,
      runsVars, diskVars, labelVars, joinVars, splitVars,
      textVars>>
notEncode ==
    <<chunkVars, tagVars, logsVars, gisVars, classifyVars,
      runsVars, diskVars, labelVars, joinVars, splitVars,
      textVars>>
notLogs ==
    <<chunkVars, tagVars, encodeVars, gisVars, classifyVars,
      runsVars, diskVars, labelVars, joinVars, splitVars,
      textVars>>
notGIS ==
    <<chunkVars, tagVars, encodeVars, logsVars, classifyVars,
      runsVars, diskVars, labelVars, joinVars, splitVars,
      textVars>>
notClassify ==
    <<chunkVars, tagVars, encodeVars, logsVars, gisVars,
      runsVars, diskVars, labelVars, joinVars, splitVars,
      textVars>>
notRuns ==
    <<chunkVars, tagVars, encodeVars, logsVars, gisVars,
      classifyVars, diskVars, labelVars, joinVars, splitVars,
      textVars>>
notDisk ==
    <<chunkVars, tagVars, encodeVars, logsVars, gisVars,
      classifyVars, runsVars, labelVars, joinVars, splitVars,
      textVars>>
notLabel ==
    <<chunkVars, tagVars, encodeVars, logsVars, gisVars,
      classifyVars, runsVars, diskVars, joinVars, splitVars,
      textVars>>
notJoin ==
    <<chunkVars, tagVars, encodeVars, logsVars, gisVars,
      classifyVars, runsVars, diskVars, labelVars, splitVars,
      textVars>>
notSplit ==
    <<chunkVars, tagVars, encodeVars, logsVars, gisVars,
      classifyVars, runsVars, diskVars, labelVars, joinVars,
      textVars>>
notText ==
    <<chunkVars, tagVars, encodeVars, logsVars, gisVars,
      classifyVars, runsVars, diskVars, labelVars, joinVars,
      splitVars>>

\* F(v), written so that v is evaluated once, before F: a loop's next
\* iteration starts from the value the previous one computed.
ApplyTo(v, F(_)) == CHOOSE r \in { F(x) : x \in { v } } : TRUE

\* A for loop: the state after iterations lo..hi, Step(st, k) being
\* iteration k run from state st.  The range is run by halves, the second
\* from the state the first leaves, which keeps the evaluation of a long loop
\* shallow.
RECURSIVE Loop(_, _, _, _)
Loop(Step(_, _), st, lo, hi) ==
    IF lo > hi THEN st
    ELSE IF lo = hi THEN Step(st, lo)
    ELSE ApplyTo(Loop(Step, st, lo, (lo + hi) \div 2),
                 LAMBDA next : Loop(Step, next, (lo + hi) \div 2 + 1, hi))

(***************************************************************************)
(* Strings as character sequences.                                         *)
(***************************************************************************)

\* strings.Index for a one-character separator: the first position (1-based)
\* of c in s, 0 when absent.
RECURSIVE IndexFrom(_, _, _)
IndexFrom(s, c, k) ==
    IF k > Len(s) THEN 0
    ELSE IF s[k] = c THEN k
    ELSE IndexFrom(s, c, k + 1)

IndexOf(s, c) == IndexFrom(s, c, 1)

\* strings.Split(s, sep) for a one-character sep: every segment between
\* separators, empty segments included; always at least one segment.
RECURSIVE Split(_, _)
Split(s, sep) ==
    LET k == IndexOf(s, sep)
    IN  IF k = 0 THEN <<s>>
        ELSE <<SubSeq(s, 1, k - 1)>> \o Split(SubSeq(s, k + 1, Len(s)), sep)

\* strings.Replace(s, old, new, 1) for one-character old and new: only the
\* first occurrence is rewritten.
Replace1(s, old, new) ==
    LET k == IndexOf(s, old)
    IN  IF k = 0 THEN s ELSE [s EXCEPT ![k] = new]

\* strings.HasPrefix for a one-character prefix.
HasPrefix1(s, c) == Len(s) > 0 /\ s[1] = c

\* strings.Join.
RECURSIVE Join(_, _)
Join(ss, sep) ==
    IF Len(ss) = 0 THEN <<>>
    ELSE IF Len(ss) = 1 THEN ss[1]
    ELSE ss[1] \o sep \o Join(Tail(ss), sep)

\* stringInSlice (model_test.go:102-109).
stringInSlice(a, slice) == \E k \in 1..Len(slice) : slice[k] = a

(***************************************************************************)
(* Labels.                                                                 *)
(***************************************************************************)

O == <<"O">>
PERSON == <<"P", "E", "R", "S", "O", "N">>
ORG == <<"O", "R", "G">>
Categories == {PERSON, ORG}

BLabel(cat) == <<"B", "-">> \o cat
ILabel(cat) == <<"I", "-">> \o cat
B_PERSON == BLabel(PERSON)

\* The labels assignLabels produces (part_000:265-287): "O", "B-"+label and
\* "I-"+label.
Labels == {O} \cup {BLabel(c) : c \in Categories} \cup {ILabel(c) : c \in Categories}

(***************************************************************************)
(* entityExtracter.chunk                                                   *)
(***************************************************************************)

\* Longest token sequence handed to chunk.
MaxTokens == 3

\* Words and POS tags of the sample sentences.
wPierre == << "P", "i", "e", "r", "r", "e" >>
wVinken == << "V", "i", "n", "k", "e", "n" >>
w10 == << "1", "0" >>
wComma == << "," >>
NNP == << "N", "N", "P" >>
CD == << "C", "D" >>
COMMA == << "," >>

\* Tagged words the token sequences are drawn from: two words sharing a POS
\* tag, a cardinal number, and a punctuation mark.
Lexicon ==
    { [Text |-> wPierre, Tag |-> NNP],
      [Text |-> wVinken, Tag |-> NNP],
      [Text |-> w10, Tag |-> CD],
      [Text |-> wComma, Tag |-> COMMA] }

LabeledTokens ==
    { [Text |-> w.Text, Tag |-> w.Tag, Label |-> l] : w \in Lexicon, l \in Labels }

\* Every sequence of up to MaxTokens tokens, and every longest one followed
\* by a closing "," labeled "O".
TokenSeqs ==
    UNION { [1..n -> LabeledTokens] : n \in 0..MaxTokens }
    \cup { Append(s, [Text |-> wComma, Tag |-> COMMA, Label |-> O]) :
             s \in [1..MaxTokens -> LabeledTokens] }

\* parseEntities looking for B-PERSON at the head of the span only.
parseEntitiesMutLeading(ents) ==
    IF Len(ents) = 2 /\ ents[1] = B_PERSON
    THEN PERSON
    ELSE Split(ents[1], "-")[2]

\* parseEntities (part_000:419-425).
parseEntities(ents) ==
    IF stringInSlice(B_PERSON, ents) /\ Len(ents) = 2
    THEN PERSON
    ELSE Split(ents[1], "-")[2]

\* coalesce (part_000:427-439).
coalesce(ps) ==
    [ Label |-> parseEntities([k \in 1..Len(ps) |-> ps[k].Label]),
      Text  |-> Join([k \in 1..Len(ps) |-> ps[k].Text], << " " >>) ]

\* The first branch of the loop body (part_000:171-173): the token opens or
\* continues a span.
chunkContinues(tok, e, ps, n) ==
    \/ (tok.Label # O /\ tok.Label # e)
    \/ (n > 0 /\ tok.Tag = ps[n].Tag)
    \/ (n > 0 /\ tok.Tag = CD /\ ps[n].Label # O)

\* chunkCloses without its `label == end` disjunct.
chunkClosesMutNoEnd(tok, e) ==
    tok.Label = O /\ e # <<>>

\* chunkCloses without its `label == "O" && end != ""` disjunct.
chunkClosesMutNoO(tok, e) ==
    tok.Label = e

\* The second branch (part_000:177): the token ends the open span.
chunkCloses(tok, e) ==
    (tok.Label = O /\ e # <<>>) \/ tok.Label = e

chunkInit ==
    /\ cTokens \in TokenSeqs
    /\ cPos = 0
    /\ end = <<>>
    /\ parts = <<>>
    /\ idx = 0
    /\ entities = <<>>
    /\ cPc = "loop"
    /\ partsAt = <<>>
    /\ emitted = <<>>

\* One iteration of `for _, tok := range tokens`, first branch.
chunkAppend ==
    /\ cPc = "loop"
    /\ cPos < Len(cTokens)
    /\ LET tok == cTokens[cPos + 1]
       IN  /\ chunkContinues(tok, end, parts, idx)
           /\ end' = Replace1(tok.Label, "B", "I")
           /\ parts' = Append(parts, tok)
           /\ idx' = idx + 1
    /\ partsAt' = Append(partsAt, cPos + 1)
    /\ cPos' = cPos + 1
    /\ UNCHANGED <<cTokens, entities, cPc, emitted, notChunk>>

\* One iteration, second branch: the span is closed and emitted.
chunkEmit ==
    /\ cPc = "loop"
    /\ cPos < Len(cTokens)
    /\ LET tok == cTokens[cPos + 1]
           closed == IF tok.Label # O THEN Append(parts, tok) ELSE parts
       IN  /\ ~chunkContinues(tok, end, parts, idx)
           /\ chunkCloses(tok, end)
           /\ entities' = Append(entities, coalesce(closed))
           /\ emitted' = Append(emitted, IF tok.Label # O THEN Append(partsAt, cPos + 1)
                                          ELSE partsAt)
    /\ end' = <<>>
    /\ parts' = <<>>
    /\ partsAt' = <<>>
    /\ idx' = 0
    /\ cPos' = cPos + 1
    /\ UNCHANGED <<cTokens, cPc, notChunk>>

\* One iteration in which neither branch is taken.
chunkSkip ==
    /\ cPc = "loop"
    /\ cPos < Len(cTokens)
    /\ LET tok == cTokens[cPos + 1]
       IN  /\ ~chunkContinues(tok, end, parts, idx)
           /\ ~chunkCloses(tok, end)
    /\ cPos' = cPos + 1
    /\ UNCHANGED <<cTokens, end, parts, idx, entities, cPc, partsAt, emitted, notChunk>>

\* The loop is over: `return entities`.
chunkReturn ==
    /\ cPc = "loop"
    /\ cPos = Len(cTokens)
    /\ cPc' = "done"
    /\ UNCHANGED <<cTokens, cPos, end, parts, idx, entities, partsAt, emitted, notChunk>>

chunkNext == chunkAppend \/ chunkEmit \/ chunkSkip \/ chunkReturn

\* chunk is not running.
chunkIdle ==
    /\ cTokens = <<>>
    /\ cPos = 0
    /\ end = <<>>
    /\ parts = <<>>
    /\ idx = 0
    /\ entities = <<>>
    /\ cPc = "idle"
    /\ partsAt = <<>>
    /\ emitted = <<>>

(***************************************************************************)
(* Characters.                                                             *)
(***************************************************************************)

UpperSeq == << "A", "B", "C", "D", "E", "F", "G", "H", "I", "J", "K", "L", "M",
               "N", "O", "P", "Q", "R", "S", "T", "U", "V", "W", "X", "Y", "Z" >>
LowerSeq == << "a", "b", "c", "d", "e", "f", "g", "h", "i", "j", "k", "l", "m",
               "n", "o", "p", "q", "r", "s", "t", "u", "v", "w", "x", "y", "z" >>
Upper == { UpperSeq[k] : k \in 1..Len(UpperSeq) }
Lower == { LowerSeq[k] : k \in 1..Len(LowerSeq) }
Digit == { "0", "1", "2", "3", "4", "5", "6", "7", "8", "9" }
\* The regexp class \w.
WordChar == Upper \cup Lower \cup Digit \cup { "_" }

\* strings.ToLower, on ASCII.
ToLowerChar(c) ==
    IF c \in Upper THEN LowerSeq[CHOOSE k \in 1..Len(UpperSeq) : UpperSeq[k] = c] ELSE c

ToLower(s) == [k \in 1..Len(s) |-> ToLowerChar(s[k])]

AllIn(s, class) == \A k \in 1..Len(s) : s[k] \in class

\* The last n characters of s (s[len(s)-n:]).
LastN(s, n) == SubSeq(s, Len(s) - n + 1, Len(s))

\* min (model_test.go:88-93).
min(a, b) == IF a < b THEN a ELSE b

\* strconv.Atoi(s) returns no error: an optional sign and at least one digit.
AtoiOk(s) ==
    LET body == IF Len(s) > 0 /\ s[1] \in { "+", "-" } THEN Tail(s) ELSE s
    IN  Len(body) > 0 /\ AllIn(body, Digit)

(***************************************************************************)
(* PerceptronTagger.Tag                                                    *)
(***************************************************************************)

\* `none` (tag.go:64): ^(?:0|\*[\w?]\*|\*\-\d{1,3}|\*[A-Z]+\*\-\d{1,3}|\*)$
noneMatch(w) ==
    \/ w = << "0" >>
    \/ Len(w) = 3 /\ w[1] = "*" /\ w[2] \in WordChar \cup { "?" } /\ w[3] = "*"
    \/ /\ Len(w) \in 3..5
       /\ w[1] = "*"
       /\ w[2] = "-"
       /\ AllIn(SubSeq(w, 3, Len(w)), Digit)
    \/ \E n \in 1..(Len(w) - 4) :
          /\ w[1] = "*"
          /\ AllIn(SubSeq(w, 2, n + 1), Upper)
          /\ w[n + 2] = "*"
          /\ w[n + 3] = "-"
          /\ Len(w) - (n + 3) \in 1..3
          /\ AllIn(SubSeq(w, n + 4, Len(w)), Digit)
    \/ w = << "*" >>

\* `keep` (tag.go:65): ^\-[A-Z]{3}\-$
keepMatch(w) ==
    /\ Len(w) = 5
    /\ w[1] = "-"
    /\ AllIn(SubSeq(w, 2, 4), Upper)
    /\ w[5] = "-"

\* normalize (tag.go:431-444).
normalize(word) ==
    IF word = <<>> THEN word
    ELSE IF IndexOf(word, "-") # 0 /\ word[1] # "-"
         THEN << "!", "H", "Y", "P", "H", "E", "N" >>
    ELSE IF AtoiOk(word) /\ Len(word) = 4
         THEN << "!", "Y", "E", "A", "R" >>
    ELSE IF AtoiOk(<< word[1] >>)
         THEN << "!", "D", "I", "G", "I", "T", "S" >>
    ELSE ToLower(word)

START == << "-", "S", "T", "A", "R", "T", "-" >>
START2 == << "-", "S", "T", "A", "R", "T", "2", "-" >>
END_ == << "-", "E", "N", "D", "-" >>
END2 == << "-", "E", "N", "D", "2", "-" >>

\* The context array Tag builds (tag.go:326-335).
tagContext(toks) ==
    << START, START2 >> \o [k \in 1..Len(toks) |-> normalize(toks[k].Text)]
        \o << END_, END2 >>

\* featurize (tag.go:393-429). A feature is the tuple of the strings the code
\* joins with " "; none of the joined strings holds a space, so the tuple and
\* the joined string determine each other. i is the code's 0-based i; ctx is
\* 1-based here.
featurize(i, ctx, w, q1, q2) ==
    LET suf == min(Len(w), 3)
        j == min(Len(ctx) - 2, i + 2) + 1
        iminus == min(Len(ctx[j - 1]), 3)
        iplus == min(Len(ctx[j + 1]), 3)
    IN  << << "bias" >>,
           << "i suffix", LastN(w, suf) >>,
           << "i pref1", << w[1] >> >>,
           << "i-1 tag", q1 >>,
           << "i-2 tag", q2 >>,
           << "i tag+i-2 tag", q1, q2 >>,
           << "i word", ctx[j] >>,
           << "i-1 tag+i word", q1, ctx[j] >>,
           << "i-1 word", ctx[j - 1] >>,
           << "i-1 suffix", LastN(ctx[j - 1], iminus) >>,
           << "i-2 word", ctx[j - 2] >>,
           << "i+1 word", ctx[j + 1] >>,
           << "i+1 suffix", LastN(ctx[j + 1], iplus) >>,
           << "i+2 word", ctx[j + 2] >> >>

\* The scores predict accumulates (tag.go:364-372): for every feature found
\* in linearWeights, its weight for each class is added (feat.cnt is 1).
\* Weights are integers, which float64 adds exactly.
RECURSIVE scoreSum(_, _, _, _)
scoreSum(lw, feats, k, label) ==
    IF k > Len(feats) THEN 0
    ELSE (IF feats[k] \in DOMAIN lw THEN lw[feats[k]][label] ELSE 0)
            + scoreSum(lw, feats, k + 1, label)

\* max (tag.go:376-386): the first index holding the greatest score; index 0
\* (here 1) when there is none above -Inf.
RECURSIVE maxFrom(_, _, _, _)
maxFrom(scores, k, best, class) ==
    IF k > Len(scores) THEN class
    ELSE IF scores[k] > best
         THEN maxFrom(scores, k + 1, scores[k], k)
         ELSE maxFrom(scores, k + 1, best, class)

\* max returning the last index holding the greatest score.
maxMutLast(scores) ==
    IF Len(scores) = 0 THEN 1
    ELSE CHOOSE k \in 1..Len(scores) :
            \A j \in 1..Len(scores) :
                scores[j] <= scores[k] /\ (j > k => scores[j] < scores[k])

max(scores) ==
    IF Len(scores) = 0 THEN 1
    ELSE maxFrom(scores, 2, scores[1], 1)

\* averagedPerceptron.predict (tag.go:360-374).
predict(m, feats) ==
    LET scores == [c \in 1..Len(m.classes) |-> scoreSum(m.linearWeights, feats, 1, c)]
    IN  m.classes[max(scores)]

\* POS tags.
HYPHEN == << "-" >>
SYM == << "S", "Y", "M" >>
NN == << "N", "N" >>
NONE == << "-", "N", "O", "N", "E", "-" >>
DT == << "D", "T" >>

\* Words.
wEmo == << "@", "_", "@" >>
wSmile == << ":", ")" >>
wAt == << "@", "a" >>
wZero == << "0" >>
wStar == << "*" >>
wLRB == << "-", "L", "R", "B", "-" >>
wThe == << "t", "h", "e" >>
wAnn == << "A", "n", "n" >>

\* The emoticon lexicon (tag.go:340).
emoticons == { wEmo, wSmile }

\* The words token sequences are drawn from: one for each rule of Tag, and
\* words that match several rules.
TagWords == { HYPHEN, wEmo, wSmile, wAt, wZero, wStar, wLRB, wThe, wAnn }

\* Longest token sequence handed to Tag.
MaxTagTokens == 3

TagTokenSeqs ==
    UNION { [1..n -> { [Text |-> w, Tag |-> <<>>] : w \in TagWords }] : n \in 0..MaxTagTokens }

\* Tagger models (tag.go:68-96): a class list, a memorized word->tag
\* dictionary, and per-feature weight rows indexed by class.  The first
\* dictionary also memorizes words that earlier rules of Tag catch.
TaggerModels ==
    { [ classes |-> << NN, NNP >>,
        tagMap |-> (wThe :> DT) @@ (wZero :> CD) @@ (wEmo :> NN) @@ (HYPHEN :> DT),
        linearWeights |->
            (<< "bias" >> :> << 1, 0 >>)
            @@ (<< "i pref1", << "A" >> >> :> << 0, 3 >>)
            @@ (<< "i-1 tag", SYM >> :> << 2, 0 >>)
            @@ (<< "i-2 tag", NNP >> :> << 0, 1 >>) ],
      [ classes |-> << NNP, NN, CD >>,
        tagMap |-> (wThe :> DT),
        linearWeights |->
            (<< "i suffix", << "A", "n", "n" >> >> :> << 0, 0, 0 >>)
            @@ (<< "i-1 tag", START >> :> << 0, 1, 1 >>)
            @@ (<< "i word", << "@", "a" >> >> :> << 5, 0, 0 >>) ] }

\* tagDecision with the "@" rule tested before the emoticon lexicon.
tagDecisionMutAtFirst(m, i, ctx, word, q1, q2) ==
    IF word = << "-" >> THEN HYPHEN
    ELSE IF HasPrefix1(word, "@") THEN NN
    ELSE IF word \in emoticons THEN SYM
    ELSE IF noneMatch(word) THEN NONE
    ELSE IF keepMatch(word) THEN word
    ELSE IF word \in DOMAIN m.tagMap THEN m.tagMap[word]
    ELSE predict(m, featurize(i, ctx, word, q1, q2))

\* The tag of token i (0-based) by the if/else chain of Tag (tag.go:338-351).
tagDecision(m, i, ctx, word, q1, q2) ==
    IF word = << "-" >> THEN HYPHEN
    ELSE IF word \in emoticons THEN SYM
    ELSE IF HasPrefix1(word, "@") THEN NN
    ELSE IF noneMatch(word) THEN NONE
    ELSE IF keepMatch(word) THEN word
    ELSE IF word \in DOMAIN m.tagMap THEN m.tagMap[word]
    ELSE predict(m, featurize(i, ctx, word, q1, q2))

\* Entry of Tag: p1, p2 and the context array are set up (tag.go:326-335).
tagInit ==
    /\ tagger \in TaggerModels
    /\ tTokens \in TagTokenSeqs
    /\ context = tagContext(tTokens)
    /\ tPos = 0
    /\ p1 = START
    /\ p2 = START2
    /\ tPc = "loop"

\* One iteration of the token loop that leaves p2 as it was.
tagStepMutNoShift ==
    /\ tPc = "loop"
    /\ tPos < Len(tTokens)
    /\ LET word == tTokens[tPos + 1].Text
           tag == tagDecision(tagger, tPos, context, word, p1, p2)
       IN  /\ tTokens' = [tTokens EXCEPT ![tPos + 1].Tag = tag]
           /\ p2' = p2
           /\ p1' = tag
    /\ tPos' = tPos + 1
    /\ UNCHANGED <<tagger, context, tPc, notTag>>

\* One iteration of the token loop (tag.go:336-355).
tagStep ==
    /\ tPc = "loop"
    /\ tPos < Len(tTokens)
    /\ LET word == tTokens[tPos + 1].Text
           tag == tagDecision(tagger, tPos, context, word, p1, p2)
       IN  /\ tTokens' = [tTokens EXCEPT ![tPos + 1].Tag = tag]
           /\ p2' = p1
           /\ p1' = tag
    /\ tPos' = tPos + 1
    /\ UNCHANGED <<tagger, context, tPc, notTag>>

\* `return tokens` (tag.go:357).
tagReturn ==
    /\ tPc = "loop"
    /\ tPos = Len(tTokens)
    /\ tPc' = "done"
    /\ UNCHANGED <<tagger, tTokens, context, tPos, p1, p2, notTag>>

tagNext == tagStep \/ tagReturn

\* Tag is not running.
tagIdle ==
    /\ tagger = [classes |-> <<>>, tagMap |-> <<>>, linearWeights |-> <<>>]
    /\ tTokens = <<>>
    /\ context = <<>>
    /\ tPos = 0
    /\ p1 = <<>>
    /\ p2 = <<>>
    /\ tPc = "idle"

(***************************************************************************)
(* NER feature extraction.                                                 *)
(***************************************************************************)

\* featureOrder (part_000:65-68).
featureOrder ==
    << << "b", "i", "a", "s" >>,
       << "e", "n", "-", "w", "o", "r", "d", "l", "i", "s", "t" >>,
       << "n", "e", "x", "t", "p", "o", "s" >>,
       << "n", "e", "x", "t", "w", "o", "r", "d" >>,
       << "p", "o", "s" >>,
       << "p", "o", "s", "+", "p", "r", "e", "v", "t", "a", "g" >>,
       << "p", "r", "e", "f", "i", "x", "3" >>,
       << "p", "r", "e", "v", "p", "o", "s" >>,
       << "p", "r", "e", "v", "t", "a", "g" >>,
       << "p", "r", "e", "v", "w", "o", "r", "d" >>,
       << "s", "h", "a", "p", "e" >>,
       << "s", "h", "a", "p", "e", "+", "p", "r", "e", "v", "t", "a", "g" >>,
       << "s", "u", "f", "f", "i", "x", "3" >>,
       << "w", "o", "r", "d" >>,
       << "w", "o", "r", "d", "+", "n", "e", "x", "t", "p", "o", "s" >>,
       << "w", "o", "r", "d", ".", "l", "o", "w", "e", "r" >>,
       << "w", "o", "r", "d", "l", "e", "n" >> >>

\* NoneFeat (part_000:441).
NoneFeat == << "N", "o", "n", "e" >>
sTrue == << "T", "r", "u", "e" >>
sFalse == << "F", "a", "l", "s", "e" >>

\* The English word list isBasic consults.
enWordList == { << "t", "h", "e" >>, << "i", "s" >> }

\* isBasic (model_test.go:162-167).
isBasic(word) == IF word \in enWordList THEN sTrue ELSE sFalse

\* nSuffix and nPrefix (model_test.go:154-160).
nSuffix(word, length) == ToLower(LastN(word, min(Len(word), length)))
nPrefix(word, length) == ToLower(SubSeq(word, 1, min(Len(word), length)))

\* A decimal mantissa: digits with at most one '.', and at least one digit.
IsMantissa(s) ==
    LET dot == IndexOf(s, ".")
        digits == IF dot = 0 THEN s
                  ELSE SubSeq(s, 1, dot - 1) \o SubSeq(s, dot + 1, Len(s))
    IN  Len(digits) > 0 /\ AllIn(digits, Digit)

Unsigned(s) == IF Len(s) > 0 /\ s[1] \in { "+", "-" } THEN Tail(s) ELSE s

\* isNumeric (model_test.go:96-99): strconv.ParseFloat(s, 64) returns no
\* error.  Decimal literals with an optional sign and exponent, and the
\* names inf, infinity and nan in any case (nan takes no sign); hexadecimal
\* literals and out-of-range exponents do not occur among the model's words.
isNumeric(s) ==
    LET body == Unsigned(s)
        low == ToLower(body)
        e == IndexOf(low, "e")
    IN  \/ low \in { << "i", "n", "f" >>, << "i", "n", "f", "i", "n", "i", "t", "y" >> }
        \/ ToLower(s) = << "n", "a", "n" >>
        \/ e = 0 /\ IsMantissa(body)
        \/ /\ e > 0
           /\ IsMantissa(SubSeq(body, 1, e - 1))
           /\ LET ex == Unsigned(SubSeq(body, e + 1, Len(body)))
              IN  Len(ex) > 0 /\ AllIn(ex, Digit)

\* strings.Title on ASCII: a letter that starts the string or follows a
\* character other than a letter, digit or '_' is upper-cased.
ToUpperChar(c) ==
    IF c \in Lower THEN UpperSeq[CHOOSE k \in 1..Len(LowerSeq) : LowerSeq[k] = c] ELSE c

Title(s) ==
    [k \in 1..Len(s) |->
        IF k = 1 \/ s[k - 1] \notin WordChar THEN ToUpperChar(s[k]) ELSE s[k]]

\* shape (part_000:490-505).  `\W+$` matches a string ending in a non-word
\* character, `\w+$` one ending in a word character.
shape(word) ==
    IF isNumeric(word) THEN << "n", "u", "m", "b", "e", "r" >>
    ELSE IF Len(word) > 0 /\ word[Len(word)] \notin WordChar THEN << "p", "u", "n", "c", "t" >>
    ELSE IF Len(word) > 0 /\ word[Len(word)] \in WordChar
         THEN IF ToLower(word) = word THEN << "d", "o", "w", "n", "c", "a", "s", "e" >>
              ELSE IF Title(word) = word THEN << "u", "p", "c", "a", "s", "e" >>
              ELSE << "m", "i", "x", "e", "d", "c", "a", "s", "e" >>
    ELSE << "o", "t", "h", "e", "r" >>

\* strconv.Itoa for a non-negative number.
RECURSIVE Itoa(_)
Itoa(n) ==
    LET d == << "0", "1", "2", "3", "4", "5", "6", "7", "8", "9" >>[(n % 10) + 1]
    IN  IF n < 10 THEN << d >> ELSE Itoa(n \div 10) \o << d >>

\* simplePOS (part_000:507-512).
simplePOS(pos) ==
    IF HasPrefix1(pos, "V") THEN << "v" >> ELSE Split(pos, "-")[1]

\* extract (part_000:443-488).  i is the code's 0-based index; slot k of the
\* code is slot k + 1 here.  Slot 1 ("en-wordlist") is never assigned and
\* keeps Go's zero value "", and the isBasic value stored in slot 2 is
\* overwritten by the next token's POS.
extract(i, ctx, history) ==
    LET n == i + 1
        word == ctx[n].Text
        lower == ToLower(word)
        prevtag == IF i = 0 THEN NoneFeat ELSE history[n - 1]
        prevword == IF i = 0 THEN NoneFeat ELSE ToLower(ctx[n - 1].Text)
        prevpos == IF i = 0 THEN NoneFeat ELSE ctx[n - 1].Tag
        prevShape == IF i = 0 \/ i = 1 THEN NoneFeat ELSE shape(ctx[n - 1].Text)
        nextword == IF i = Len(ctx) - 1 THEN NoneFeat ELSE ToLower(ctx[n + 1].Text)
        nextpos == IF i = Len(ctx) - 1 THEN NoneFeat ELSE ToLower(ctx[n + 1].Tag)
    IN  << sTrue,
           <<>>,
           nextpos,
           nextword,
           ctx[n].Tag,
           ctx[n].Tag \o << "+" >> \o prevtag,
           nPrefix(word, 3),
           prevpos,
           prevtag,
           prevword,
           shape(word),
           prevShape \o << "+" >> \o prevtag,
           nSuffix(word, 3),
           word,
           lower \o << "+" >> \o nextpos,
           lower,
           Itoa(Len(word)) >>

\* extractFeatures (part_000:255-263).
extractFeatures(toks, history) ==
    [k \in 1..Len(toks) |->
        [label |-> history[k], features |-> extract(k - 1, toks, history)]]

(***************************************************************************)
(* The joint-feature vocabulary: encode(corpus), encode and encodeGIS.     *)
(***************************************************************************)

\* Most labeled sentences in a training set handed to encode(corpus).
MaxRecords == 2

\* Most encode and encodeGIS calls made on one classifier.
MaxCalls == 2

\* Labeled sample sentences: tagged tokens and the labels assignLabels gave
\* them.  The second shares a word with the first; the third is a number.
samplePierre ==
    [tokens |-> << [Text |-> wPierre, Tag |-> NNP], [Text |-> wVinken, Tag |-> NNP] >>,
     history |-> << B_PERSON, ILabel(PERSON) >>]
sampleVinken ==
    [tokens |-> << [Text |-> wVinken, Tag |-> NNP], [Text |-> wComma, Tag |-> COMMA] >>,
     history |-> << B_PERSON, O >>]
sampleNumber ==
    [tokens |-> << [Text |-> w10, Tag |-> CD] >>,
     history |-> << O >>]

Samples == { samplePierre, sampleVinken, sampleNumber }

TrainingSets == UNION { [1..n -> Samples] : n \in 0..MaxRecords }

\* makeCorpus (part_000:289-300), from the tagged tokens of each record.
RECURSIVE makeCorpus(_)
makeCorpus(data) ==
    IF Len(data) = 0 THEN <<>>
    ELSE extractFeatures(data[1].tokens, data[1].history) \o makeCorpus(Tail(data))

Corpora == { makeCorpus(d) : d \in TrainingSets }

\* newMaxentClassifier with the cardinality the number of name prefixes.
newMaxentClassifierMutNoPlusOne(w, m, ls) ==
    [cardinality |-> Cardinality({ Split(key, "-")[1] : key \in DOMAIN m }),
     labels |-> ls,
     mapping |-> m,
     weights |-> w,
     buf |-> <<>>]

\* newMaxentClassifier (part_000:92-109).
newMaxentClassifier(w, m, ls) ==
    [cardinality |-> Cardinality({ Split(key, "-")[1] : key \in DOMAIN m }) + 1,
     labels |-> ls,
     mapping |-> m,
     weights |-> w,
     buf |-> <<>>]

\* One iteration of the inner loop of encode(corpus), giving an index again
\* to a key the mapping already holds.
encodeSlotMutReassign(st, entry, i) ==
    LET ent == Join(<< featureOrder[i], entry.features[i], entry.label >>, << "-" >>)
    IN  [st EXCEPT !.mapping =
            IF ent \in DOMAIN st.mapping
            THEN [st.mapping EXCEPT ![ent] = Cardinality(DOMAIN st.mapping)]
            ELSE st.mapping @@ (ent :> Cardinality(DOMAIN st.mapping))]

\* One iteration of the inner loop of encode(corpus) (part_000:527-534).
encodeSlot(st, entry, i) ==
    LET fname == featureOrder[i]
        fval == entry.features[i]
        key == Join(<< fname, fval >>, << "-" >>)
        ent == Join(<< fname, fval, entry.label >>, << "-" >>)
    IN  [st EXCEPT
            !.count = IF key \in DOMAIN @ THEN [@ EXCEPT ![key] = @ + 1]
                      ELSE @ @@ (key :> 1),
            !.mapping = IF ent \in DOMAIN @ THEN @
                        ELSE @ @@ (ent :> Cardinality(DOMAIN @))]

\* The inner loop of encode(corpus) from slot i on (part_000:526-535).
encodeSlots(st, entry, i) ==
    Loop(LAMBDA s, k : encodeSlot(s, entry, k), st, i, Len(featureOrder))

\* One iteration of the outer loop of encode(corpus) (part_000:520-536).
encodeEntry(st, entry) ==
    encodeSlots(
        [st EXCEPT !.labels = IF stringInSlice(entry.label, @) THEN @
                              ELSE Append(@, entry.label)],
        entry, 1)

\* encode(corpus) (part_000:514-538) over the entries from k on.
encodeLoop(st, c, k) ==
    Loop(LAMBDA s, n : encodeEntry(s, c[n]), st, k, Len(c))

encodeStart == [mapping |-> <<>>, count |-> <<>>, labels |-> <<>>]

encodeCorpus(c) ==
    LET st == encodeLoop(encodeStart, c, 1)
    IN  newMaxentClassifier(<<>>, st.mapping, st.labels)

\* make([]byte, n): n zero bytes.
NUL == "NUL"

\* byteJoin returning the whole scratch buffer instead of its first n bytes.
byteJoinMutWholeBuf(buf, a, b, c, jc) ==
    LET n == Len(a) + Len(b) + Len(c) + 2
        b0 == IF Len(buf) < n THEN [k \in 1..n |-> NUL] ELSE buf
        b1 == a \o << jc >> \o b \o << jc >> \o c \o SubSeq(b0, n + 1, Len(b0))
    IN  [buf |-> b1, res |-> b1]

\* byteJoin (part_000:193-206): the scratch buffer after the call, and the
\* string returned.  A buffer shorter than the key is replaced; a longer one
\* keeps its bytes beyond the key.
byteJoin(buf, a, b, c, jc) ==
    LET n == Len(a) + Len(b) + Len(c) + 2
        b0 == IF Len(buf) < n THEN [k \in 1..n |-> NUL] ELSE buf
        b1 == a \o << jc >> \o b \o << jc >> \o c \o SubSeq(b0, n + 1, Len(b0))
    IN  [buf |-> b1, res |-> SubSeq(b1, 1, n)]

\* One iteration of the loop of encode(features, label) (part_000:211-217):
\* st holds the classifier m and the encoding built so far.
encodeSlotOf(st, features, label, i) ==
    LET j == byteJoin(st.m.buf, featureOrder[i], features[i], label, "-")
    IN  [m |-> [st.m EXCEPT !.buf = j.buf],
         encoding |-> IF j.res \in DOMAIN st.m.mapping
                      THEN Append(st.encoding,
                                  [key |-> st.m.mapping[j.res], value |-> 1])
                      ELSE st.encoding]

\* The loop of encode(features, label) from slot i on (part_000:210-218).
encodeFrom(st, features, label, i) ==
    Loop(LAMBDA s, k : encodeSlotOf(s, features, label, k), st, i, Len(featureOrder))

\* binaryMaxentClassifier.encode (part_000:208-220): the classifier after the
\* call and the encoding returned.
encode(m, features, label) ==
    encodeFrom([m |-> m, encoding |-> <<>>], features, label, 1)

\* The loop summing the values of an encoding (part_000:226-229).
totalValue(encoding) ==
    Loop(LAMBDA total, k : total + encoding[k].value, 0, 1, Len(encoding))

\* encodeGIS giving the correction entry the whole cardinality.
encodeGISMutNoTotal(m, features, label) ==
    LET r == encode(m, features, label)
    IN  [m |-> r.m,
         encoding |-> Append(r.encoding,
                             [key |-> Cardinality(DOMAIN m.mapping),
                              value |-> m.cardinality])]

\* binaryMaxentClassifier.encodeGIS (part_000:222-235).
encodeGIS(m, features, label) ==
    LET r == encode(m, features, label)
    IN  [m |-> r.m,
         encoding |-> Append(r.encoding,
                             [key |-> Cardinality(DOMAIN m.mapping),
                              value |-> m.cardinality - totalValue(r.encoding)])]

\* Feature tuples and labels the calls are made with: the tokens of the
\* first sample (seen, partly seen or unseen, depending on the corpus), and a
\* label no sample carries.
FeatureInputs ==
    { extract(i, samplePierre.tokens, samplePierre.history) : i \in 0..1 }

LabelInputs == { B_PERSON, O, BLabel(ORG) }

noClassifier == newMaxentClassifier(<<>>, <<>>, <<>>)
noCall == [op |-> "none"]

encodeInit ==
    /\ corpus \in Corpora
    /\ vPos = 0
    /\ vState = encodeStart
    /\ classifier = noClassifier
    /\ call = noCall
    /\ encoded = <<>>
    /\ calls = 0
    /\ vPc = "build"

\* One entry of the corpus scanned by encode(corpus).
encodeStep ==
    /\ vPc = "build"
    /\ vPos < Len(corpus)
    /\ vState' = encodeEntry(vState, corpus[vPos + 1])
    /\ vPos' = vPos + 1
    /\ UNCHANGED <<corpus, classifier, call, encoded, calls, vPc, notEncode>>

\* encode(corpus) returns the classifier.
encodeReturn ==
    /\ vPc = "build"
    /\ vPos = Len(corpus)
    /\ classifier' = newMaxentClassifier(<<>>, vState.mapping, vState.labels)
    /\ vPc' = "ready"
    /\ UNCHANGED <<corpus, vPos, vState, call, encoded, calls, notEncode>>

\* A call of classifier.encode(features, label).
encodeCall ==
    /\ vPc = "ready"
    /\ calls < MaxCalls
    /\ \E f \in FeatureInputs, l \in LabelInputs :
         LET r == encode(classifier, f, l)
         IN  /\ classifier' = r.m
             /\ encoded' = r.encoding
             /\ call' = [op |-> "encode", features |-> f, label |-> l]
    /\ calls' = calls + 1
    /\ UNCHANGED <<corpus, vPos, vState, vPc, notEncode>>

\* A call of classifier.encodeGIS(features, label).
encodeGISCall ==
    /\ vPc = "ready"
    /\ calls < MaxCalls
    /\ \E f \in FeatureInputs, l \in LabelInputs :
         LET r == encodeGIS(classifier, f, l)
         IN  /\ classifier' = r.m
             /\ encoded' = r.encoding
             /\ call' = [op |-> "encodeGIS", features |-> f, label |-> l]
    /\ calls' = calls + 1
    /\ UNCHANGED <<corpus, vPos, vState, vPc, notEncode>>

encodeNext == encodeStep \/ encodeReturn \/ encodeCall \/ encodeGISCall

encodeIdle ==
    /\ corpus = <<>>
    /\ vPos = 0
    /\ vState = encodeStart
    /\ classifier = noClassifier
    /\ call = noCall
    /\ encoded = <<>>
    /\ calls = 0
    /\ vPc = "idle"

(***************************************************************************)
(* float64 arithmetic at reduced precision.                                *)
(*                                                                         *)
(* A finite number is m * 2^e with an integer significand m of exactly     *)
(* MantBits bits (or m = 0 and e = 0); results are rounded to nearest,     *)
(* ties to even, as IEEE 754 does.  NaN and the two infinities follow the  *)
(* IEEE rules.  The sign of zero and subnormal precision are not kept.     *)
(***************************************************************************)

\* Bits of the significand (float64 has 53).
MantBits == 12

\* float64's exponent range: 2^1024 overflows, below 2^-1074 is zero.
MaxExp == 1024
MinExp == -1074

NaN == [k |-> "nan", m |-> 0, e |-> 0]
PInf == [k |-> "inf", m |-> 1, e |-> 0]
NInf == [k |-> "inf", m |-> -1, e |-> 0]
Zero == [k |-> "fin", m |-> 0, e |-> 0]

IsNaN(a) == a.k = "nan"
IsInf(a) == a.k = "inf"
IsFinite(a) == a.k = "fin"

Abs(n) == IF n < 0 THEN -n ELSE n
Sign(n) == IF n < 0 THEN -1 ELSE IF n > 0 THEN 1 ELSE 0

\* Number of bits of a natural number below 2^30.
BitLen(n) == CHOOSE k \in 0..30 : n < 2^k /\ (k = 0 \/ n >= 2^(k - 1))

\* The float m * 2^e for a significand of MantBits bits, with overflow to an
\* infinity and underflow to zero.
Clamp(m, e) ==
    IF e + MantBits > MaxExp THEN (IF m < 0 THEN NInf ELSE PInf)
    ELSE IF e + MantBits - 1 < MinExp THEN Zero
    ELSE [k |-> "fin", m |-> m, e |-> e]

\* The same when rounding up may have carried m to 2^MantBits.
Pack(m, e) ==
    IF Abs(m) = 2^MantBits THEN Clamp(Sign(m) * 2^(MantBits - 1), e + 1)
    ELSE Clamp(m, e)

\* s * (q + r2 / (2 * unit)) * 2^e rounded to nearest, ties to even.
RoundOff(s, q, r2, unit, e) ==
    Pack(s * (IF r2 > unit \/ (r2 = unit /\ q % 2 = 1) THEN q + 1 ELSE q), e)

\* m * 2^e for an m that has MantBits + sh bits.
RoundShift(m, e, sh) ==
    IF sh <= 0 THEN Pack(m * 2^(-sh), e + sh)
    ELSE RoundOff(Sign(m), Abs(m) \div 2^sh, 2 * (Abs(m) % 2^sh), 2^sh, e + sh)

\* The float nearest to m * 2^e.
Round(m, e) ==
    IF m = 0 THEN Zero ELSE RoundShift(m, e, BitLen(Abs(m)) - MantBits)

\* float64(n) for an int n.
FromInt(n) == Round(n, 0)
One == FromInt(1)

Neg(a) == IF IsNaN(a) THEN NaN ELSE [a EXCEPT !.m = -a.m]

\* a + b.
Add(a, b) ==
    IF IsNaN(a) \/ IsNaN(b) THEN NaN
    ELSE IF IsInf(a) THEN (IF IsInf(b) /\ b.m # a.m THEN NaN ELSE a)
    ELSE IF IsInf(b) THEN b
    ELSE IF a.m = 0 THEN b
    ELSE IF b.m = 0 THEN a
    ELSE LET hi == IF a.e >= b.e THEN a ELSE b
             lo == IF a.e >= b.e THEN b ELSE a
             d == hi.e - lo.e
         IN  IF d > MantBits + 2 THEN hi
             ELSE Round(hi.m * 2^d + lo.m, lo.e)

\* a - b.
Sub(a, b) == Add(a, Neg(b))

\* a * b.
Mul(a, b) ==
    IF IsNaN(a) \/ IsNaN(b) THEN NaN
    ELSE IF IsInf(a) \/ IsInf(b)
         THEN (IF a.m = 0 \/ b.m = 0 THEN NaN
               ELSE IF Sign(a.m) = Sign(b.m) THEN PInf ELSE NInf)
    ELSE IF b = One THEN a
    ELSE Round(a.m * b.m, a.e + b.e)

\* a / b.
Div(a, b) ==
    IF IsNaN(a) \/ IsNaN(b) THEN NaN
    ELSE IF IsInf(a)
         THEN (IF IsInf(b) THEN NaN
               ELSE IF Sign(a.m) * (IF b.m < 0 THEN -1 ELSE 1) > 0 THEN PInf ELSE NInf)
    ELSE IF IsInf(b) THEN Zero
    ELSE IF b.m = 0
         THEN (IF a.m = 0 THEN NaN ELSE IF a.m > 0 THEN PInf ELSE NInf)
    ELSE IF a.m = 0 THEN Zero
    ELSE LET num == Abs(a.m) * 2^(MantBits + 2)
             q == num \div Abs(b.m)
             sticky == IF num % Abs(b.m) = 0 THEN 0 ELSE 1
         IN  Round(Sign(a.m) * Sign(b.m) * (2 * q + sticky),
                   a.e - b.e - MantBits - 3)

\* a < b, false when either is NaN.
Lt(a, b) ==
    IF IsNaN(a) \/ IsNaN(b) \/ a = b THEN FALSE
    ELSE IF a = NInf \/ b = PInf THEN TRUE
    ELSE IF a = PInf \/ b = NInf THEN FALSE
    ELSE Sub(a, b).m < 0

\* a == b and a <= b, false when either is NaN.
Eq(a, b) == ~IsNaN(a) /\ ~IsNaN(b) /\ a = b
Le(a, b) == Eq(a, b) \/ Lt(a, b)

\* math.Min.
Min(a, b) ==
    IF a = NInf \/ b = NInf THEN NInf
    ELSE IF IsNaN(a) \/ IsNaN(b) THEN NaN
    ELSE IF Lt(a, b) THEN a ELSE b

\* Fraction bits of the fixed-point numbers the series below are summed in.
FixBits == 14
FixOne == 2^FixBits

\* x * y and x / y on fixed-point numbers, rounded to nearest.
FixMul(x, y) == (x * y + FixOne \div 2) \div FixOne
FixDiv(x, y) == (x * FixOne + y \div 2) \div y

\* log2 of a fixed-point f in [1, 2): (2 / ln 2) * atanh((f - 1) / (f + 1)),
\* atanh by its series to the ninth power.
Log2Fix(f) ==
    LET z == FixDiv(f - FixOne, f + FixOne)
        z2 == FixMul(z, z)
        t9 == FixOne \div 9
        t7 == FixOne \div 7 + FixMul(z2, t9)
        t5 == FixOne \div 5 + FixMul(z2, t7)
        t3 == FixOne \div 3 + FixMul(z2, t5)
        t1 == FixOne + FixMul(z2, t3)
        twoOverLn2 == 47274   \* 2 / ln 2 at FixBits fraction bits
    IN  FixMul(FixMul(z, t1), twoOverLn2)

\* math.Log2.
Log2(a) ==
    IF IsNaN(a) THEN NaN
    ELSE IF a = PInf THEN PInf
    ELSE IF a.m < 0 THEN NaN
    ELSE IF a.m = 0 THEN NInf
    ELSE LET f == (a.m * FixOne) \div 2^(MantBits - 1)
         IN  Add(FromInt(a.e + MantBits - 1), Round(Log2Fix(f), -FixBits))

\* 2^f for a fixed-point f in [0, 1): exp(f * ln 2), exp by its series to
\* the eighth power.
Pow2Fix(f) ==
    LET ln2 == 11357   \* ln 2 at FixBits fraction bits
        y == FixMul(f, ln2)
        t8 == FixOne + FixMul(y, FixOne) \div 8
        t7 == FixOne + FixMul(y, t8) \div 7
        t6 == FixOne + FixMul(y, t7) \div 6
        t5 == FixOne + FixMul(y, t6) \div 5
        t4 == FixOne + FixMul(y, t5) \div 4
        t3 == FixOne + FixMul(y, t4) \div 3
        t2 == FixOne + FixMul(y, t3) \div 2
    IN  FixOne + FixMul(y, t2)

\* math.Pow(2, a).
Pow2(a) ==
    IF IsNaN(a) THEN NaN
    ELSE IF a = PInf THEN PInf
    ELSE IF a = NInf THEN Zero
    ELSE IF a.m = 0 THEN One
    ELSE IF a.e + MantBits > 11 THEN (IF a.m > 0 THEN PInf ELSE Zero)
    ELSE IF a.e + MantBits < -FixBits THEN One
    ELSE LET xq == IF a.e + FixBits >= 0 THEN a.m * 2^(a.e + FixBits)
                   ELSE a.m \div 2^(-(a.e + FixBits))
             n == xq \div FixOne
             f == xq % FixOne
         IN  IF n >= MaxExp THEN PInf
             ELSE IF n < MinExp - 1 THEN Zero
             ELSE Round(Pow2Fix(f), n - FixBits)

(***************************************************************************)
(* Log2-space probabilities: addLogs, sumLogs, newMappedProbDist and       *)
(* probClassify.                                                           *)
(***************************************************************************)

\* maxLogDiff (part_000:16): math.Log2(1e-30), about -99.66.
maxLogDiff ==
    LET e5 == FromInt(100000)
        e15 == Mul(Mul(e5, e5), e5)
    IN  Log2(Div(One, Mul(e15, e15)))

\* addLogs (part_000:551-559).
addLogs(x, y) ==
    IF Lt(x, Add(y, maxLogDiff)) THEN y
    ELSE IF Lt(y, Add(x, maxLogDiff)) THEN x
    ELSE LET base == Min(x, y)
         IN  Add(base, Log2(Add(Pow2(Sub(x, base)), Pow2(Sub(y, base)))))

\* The loop of sumLogs over logs[k..] (part_000:565-568).
sumLogsFrom(sum, logs, k) ==
    Loop(LAMBDA s, n : addLogs(s, logs[n]), sum, k, Len(logs))

\* sumLogs (part_000:561-570).
sumLogs(logs) ==
    IF Len(logs) = 0 THEN NInf ELSE sumLogsFrom(logs[1], logs, 2)

\* The orders in which a range loop may visit the keys of a map.
Orders(keys) ==
    { o \in [1..Cardinality(keys) -> keys] :
        \A i, j \in 1..Cardinality(keys) : i # j => o[i] # o[j] }

\* newMappedProbDist (part_000:30-51).  dict maps a label to its probEnc
\* (prob, vec); order is the order in which the first range loop visits the
\* map; doNormalize is the parameter normalize.
newMappedProbDist(dict, order, doNormalize) ==
    IF ~doNormalize THEN [dict |-> dict, log |-> TRUE]
    ELSE LET values == [k \in 1..Len(order) |-> dict[order[k]].prob]
             sum == sumLogs(values)
             p == Log2(Div(One, FromInt(Cardinality(DOMAIN dict))))
         IN  [dict |-> [l \in DOMAIN dict |->
                          [dict[l] EXCEPT !.prob = IF Le(sum, NInf) THEN p
                                                   ELSE Sub(@, sum)]],
              log |-> TRUE]

\* mappedProbDist.prob (part_000:23-28).
prob(dist, label) ==
    IF label \in DOMAIN dist.dict THEN Pow2(dist.dict[label].prob) ELSE Zero

\* The loop summing weight * value over the entries vec[k..]
\* (part_000:408-411).
scoreFrom(total, weights, vec, k) ==
    Loop(LAMBDA t, n : Add(t, Mul(weights[vec[n].key + 1], FromInt(vec[n].value))),
         total, k, Len(vec))

\* One iteration of the loop of probClassify (part_000:407-412): st holds
\* the classifier m and the scores map.
probScore(st, features, label) ==
    LET r == encodeGIS(st.m, features, label)
        total == scoreFrom(Zero, st.m.weights, r.encoding, 1)
    IN  [m |-> r.m,
         scores |-> (label :> [prob |-> total, vec |-> r.encoding]) @@ st.scores]

\* The loop of probClassify over labels[i..] (part_000:406-413).
probScores(st, features, i) ==
    Loop(LAMBDA s, k : probScore(s, features, s.m.labels[k]), st, i, Len(st.m.labels))

\* entityExtracter.probClassify (part_000:404-417): the classifier after the
\* call and the distribution returned.
probClassify(m, features, order) ==
    LET r == probScores([m |-> m, scores |-> <<>>], features, 1)
    IN  [m |-> r.m, dist |-> newMappedProbDist(r.scores, order, TRUE)]

\* Rational numbers as floats.
Ratio(n, d) == Div(FromInt(n), FromInt(d))

\* Log2-probabilities handed to addLogs: probability zero, values on both
\* sides of the maxLogDiff floor from one another, and values close together.
LogInputs ==
    { NInf, FromInt(-100), Ratio(-199, 2), FromInt(-99), FromInt(-50),
      FromInt(-3), FromInt(-1), Ratio(-1, 2), Zero, Ratio(1, 2), One,
      FromInt(2), FromInt(64), FromInt(99), FromInt(100) }

\* Most labels in a score map handed to newMappedProbDist.
MaxDistLabels == 2

\* Scores of a label.
ScoreInputs == { NInf, FromInt(-3), Zero, Ratio(1, 2) }

DistLabels == << B_PERSON, O, ILabel(PERSON) >>

DistInputs ==
    UNION { [{ DistLabels[k] : k \in 1..n } -> [prob : ScoreInputs, vec : { <<>> }]] :
              n \in 1..MaxDistLabels }

\* Most labeled sentences in a training set handed to extracterFromData.
MaxTrainRecords == 1

TrainCorpora ==
    { makeCorpus(d) : d \in UNION { [1..n -> Samples] : n \in 0..MaxTrainRecords } }

\* Weights of a classifier: one value at the even indices, one at the odd.
WeightInputs == { NInf, FromInt(-1), Zero, Ratio(1, 2) }

WeightVectors(rows) ==
    { [i \in 1..rows |-> IF i % 2 = 1 THEN a ELSE b] : a, b \in WeightInputs }

\* Classifiers with at least one label: the vocabulary of a corpus with a
\* weight for every index and for the correction feature.
ClassifierInputs ==
    UNION { LET m == encodeCorpus(c)
            IN  { [m EXCEPT !.weights = w] :
                    w \in WeightVectors(Cardinality(DOMAIN m.mapping) + 1) } :
            c \in TrainCorpora \ { <<>> } }

noDist == [dict |-> <<>>, log |-> TRUE]

\* The arguments of one call: of addLogs, of newMappedProbDist or of
\* probClassify.
logsInit ==
    /\ lOp \in { "addLogs", "newMappedProbDist", "probClassify" }
    /\ lx \in IF lOp = "addLogs" THEN LogInputs ELSE { Zero }
    /\ ly \in IF lOp = "addLogs" THEN LogInputs ELSE { Zero }
    /\ lDict \in IF lOp = "newMappedProbDist" THEN DistInputs ELSE { <<>> }
    /\ lModel \in IF lOp = "probClassify" THEN ClassifierInputs ELSE { noClassifier }
    /\ lFeatures \in IF lOp = "probClassify" THEN FeatureInputs ELSE { <<>> }
    /\ lSum = Zero
    /\ lDist = noDist
    /\ lPc = "call"

\* A call of addLogs(x, y).
addLogsCall ==
    /\ lPc = "call"
    /\ lOp = "addLogs"
    /\ lSum' = addLogs(lx, ly)
    /\ lPc' = "done"
    /\ UNCHANGED <<lOp, lx, ly, lDict, lModel, lFeatures, lDist, notLogs>>

\* A call of newMappedProbDist(dict, true).
newMappedProbDistCall ==
    /\ lPc = "call"
    /\ lOp = "newMappedProbDist"
    /\ \E order \in Orders(DOMAIN lDict) :
         lDist' = newMappedProbDist(lDict, order, TRUE)
    /\ lPc' = "done"
    /\ UNCHANGED <<lOp, lx, ly, lDict, lModel, lFeatures, lSum, notLogs>>

\* A call of probClassify(features).
probClassifyCall ==
    /\ lPc = "call"
    /\ lOp = "probClassify"
    /\ \E order \in Orders({ lModel.labels[k] : k \in 1..Len(lModel.labels) }) :
         LET r == probClassify(lModel, lFeatures, order)
         IN  /\ lModel' = r.m
             /\ lDist' = r.dist
    /\ lPc' = "done"
    /\ UNCHANGED <<lOp, lx, ly, lDict, lFeatures, lSum, notLogs>>

logsNext == addLogsCall \/ newMappedProbDistCall \/ probClassifyCall

logsIdle ==
    /\ lOp = "none"
    /\ lx = Zero
    /\ ly = Zero
    /\ lDict = <<>>
    /\ lModel = noClassifier
    /\ lFeatures = <<>>
    /\ lSum = Zero
    /\ lDist = noDist
    /\ lPc = "idle"

(***************************************************************************)
(* GIS training: extracterFromData, empiricalCount and estCount.  A range  *)
(* loop over the score map visits the labels in the classifier's label     *)
(* order.                                                                  *)
(***************************************************************************)

\* The GIS rounds (part_000:324).
Rounds == 100

\* mat.NewVecDense(n, nil): a vector of n zeros.  Index k of the code is
\* position k + 1.
NewVecDense(n) == [i \in 1..n |-> Zero]

\* One iteration of the inner loop of empiricalCount (part_000:543-546).
empiricalAdd(count, encodedValue) ==
    [count EXCEPT ![encodedValue.key + 1] = Add(@, FromInt(encodedValue.value))]

\* One iteration of the outer loop of empiricalCount (part_000:542-547): st
\* holds the classifier m, whose scratch buffer encodeGIS writes, and count.
empiricalEntry(st, entry) ==
    LET r == encodeGIS(st.m, entry.features, entry.label)
    IN  [m |-> r.m,
         count |-> Loop(LAMBDA c, k : empiricalAdd(c, r.encoding[k]),
                        st.count, 1, Len(r.encoding))]

\* empiricalCount (part_000:540-549): the classifier after the call and the
\* count vector returned.
empiricalCount(c, encoding) ==
    Loop(LAMBDA s, k : empiricalEntry(s, c[k]),
         [m |-> encoding,
          count |-> NewVecDense(Cardinality(DOMAIN encoding.mapping) + 1)],
         1, Len(c))

\* The loop of estCount over the vec of one probEnc (part_000:357-361).
estLabel(count, pe) ==
    Loop(LAMBDA c, k :
           [c EXCEPT ![pe.vec[k].key + 1] =
               Add(@, Mul(Pow2(pe.prob), FromInt(pe.vec[k].value)))],
         count, 1, Len(pe.vec))

\* One iteration of the outer loop of estCount (part_000:354-363): st holds
\* the classifier m and count; order is the order in which the range loops
\* over the score map, here and in newMappedProbDist, visit the labels.
estEntryIn(st, entry, order) ==
    LET r == probClassify(st.m, entry.features, order)
    IN  [m |-> r.m,
         count |-> Loop(LAMBDA c, k : estLabel(c, r.dist.dict[order[k]]),
                        st.count, 1, Len(order))]

\* The same with the labels visited in the classifier's label order.
estEntry(st, entry) == estEntryIn(st, entry, st.m.labels)

\* The indices at which the count is zero, ascending (part_000:309-313).
unattestedOf(count) ==
    SelectSeq([i \in 1..Len(count) |-> i - 1], LAMBDA index : Eq(count[index + 1], Zero))

\* The first weights set to the log2 of the empirical count at every index.
initialWeightsMutLog2(count) ==
    [index \in 1..Len(count) |-> Log2(count[index])]

\* The weights before the first round (part_000:317-321): make() zeroes
\* them, and those of the unattested indices are set to -Inf.
initialWeights(count) ==
    [index \in 1..Len(count) |->
        IF \E k \in 1..Len(unattestedOf(count)) : unattestedOf(count)[k] = index - 1
        THEN NInf ELSE Zero]

\* The body of a round after estCount, without the 1 added to the estimate
\* of the unattested indices.
extracterRoundMutNoSmoothing(weights, estimate, freq, unatt, cInv) ==
    [i \in 1..Len(weights) |-> Add(weights[i], Mul(cInv, Sub(freq[i], Log2(estimate[i]))))]

\* The body of a round after estCount (part_000:326-342): the weights it
\* leaves.  freq is the log2 of the empirical count.
extracterRound(weights, estimate, freq, unatt, cInv) ==
    LET smoothed == [i \in 1..Len(estimate) |->
                       IF \E k \in 1..Len(unatt) : unatt[k] = i - 1
                       THEN Add(estimate[i], One) ELSE estimate[i]]
    IN  [i \in 1..Len(weights) |->
           Add(weights[i], Mul(cInv, Sub(freq[i], Log2(smoothed[i]))))]

\* The argument of extracterFromData.
gisInit ==
    /\ gCorpus \in TrainCorpora
    /\ gModel = noClassifier
    /\ empfreq = <<>>
    /\ unattested = <<>>
    /\ est = <<>>
    /\ gEntry = 0
    /\ gRound = 0
    /\ gPc = "start"

\* extracterFromData up to the first round (part_000:303-323).
gisPrepare ==
    /\ gPc = "start"
    /\ LET r == empiricalCount(gCorpus, encodeCorpus(gCorpus))
           rows == Len(r.count)
       IN  /\ unattested' = unattestedOf(r.count)
           /\ empfreq' = [index \in 1..rows |-> Log2(r.count[index])]
           /\ gModel' = [r.m EXCEPT !.weights = initialWeights(r.count)]
           /\ est' = NewVecDense(rows)
    /\ gEntry' = 0
    /\ gRound' = 0
    /\ gPc' = "round"
    /\ UNCHANGED <<gCorpus, notGIS>>

\* One iteration of the loop of estCount in the current round.
gisEstimate ==
    /\ gPc = "round"
    /\ gEntry < Len(gCorpus)
    /\ LET r == estEntry([m |-> gModel, count |-> est], gCorpus[gEntry + 1])
       IN  /\ gModel' = r.m
           /\ est' = r.count
    /\ gEntry' = gEntry + 1
    /\ UNCHANGED <<gCorpus, empfreq, unattested, gRound, gPc, notGIS>>

\* The rest of the round once estCount has returned (part_000:326-342).
gisUpdate ==
    /\ gPc = "round"
    /\ gEntry = Len(gCorpus)
    /\ gModel' = [gModel EXCEPT !.weights =
                    extracterRound(@, est, empfreq, unattested,
                                   Div(One, FromInt(gModel.cardinality)))]
    /\ est' = NewVecDense(Len(est))
    /\ gEntry' = 0
    /\ gRound' = gRound + 1
    /\ gPc' = IF gRound + 1 < Rounds THEN "round" ELSE "trained"
    /\ UNCHANGED <<gCorpus, empfreq, unattested, notGIS>>

\* extracterFromData returns the classifier (part_000:345).
gisReturn ==
    /\ gPc = "trained"
    /\ gPc' = "done"
    /\ UNCHANGED <<gCorpus, gModel, empfreq, unattested, est, gEntry, gRound, notGIS>>

gisNext == gisPrepare \/ gisEstimate \/ gisUpdate \/ gisReturn

gisIdle ==
    /\ gCorpus = <<>>
    /\ gModel = noClassifier
    /\ empfreq = <<>>
    /\ unattested = <<>>
    /\ est = <<>>
    /\ gEntry = 0
    /\ gRound = 0
    /\ gPc = "idle"

(***************************************************************************)
(* entityExtracter.classify and maxMap.                                    *)
(***************************************************************************)

\* One iteration of the label loop of classify (part_000:373-379): st holds
\* the classifier m, whose scratch buffer encode writes, and the scores map.
classifyScore(st, features, label) ==
    LET r == encode(st.m, features, label)
    IN  [m |-> r.m,
         scores |-> (label :> scoreFrom(Zero, st.m.weights, r.encoding, 1)) @@ st.scores]

\* The label loop of classify (part_000:371-379).
classifyScores(m, features) ==
    Loop(LAMBDA s, k : classifyScore(s, features, s.m.labels[k]),
         [m |-> m, scores |-> <<>>], 1, Len(m.labels))

\* One iteration of the loop of maxMap (part_000:390-395).
maxMapStep(st, label, value) ==
    IF Lt(st.max, value) THEN [max |-> value, class |-> label] ELSE st

\* maxMap (part_000:387-397); order is the order in which the range loop
\* visits the map.
maxMap(scores, order) ==
    Loop(LAMBDA st, k : maxMapStep(st, order[k], scores[order[k]]),
         [max |-> NInf, class |-> <<>>], 1, Len(order)).class

\* Token sequences handed to classify: tagged, not yet labeled.
ClassifyInputs ==
    { [k \in 1..Len(s.tokens) |->
          [Text |-> s.tokens[k].Text, Tag |-> s.tokens[k].Tag, Label |-> <<>>]] :
        s \in Samples }

\* The receiver and the argument of classify.
classifyInit ==
    /\ kModel \in ClassifierInputs
    /\ kTokens \in ClassifyInputs
    /\ kHistory = <<>>
    /\ kPos = 0
    /\ kPc = "loop"

\* One iteration of the token loop of classify (part_000:370-383).
classifyStep ==
    /\ kPc = "loop"
    /\ kPos < Len(kTokens)
    /\ LET r == classifyScores(kModel, extract(kPos, kTokens, kHistory))
       IN  /\ kModel' = r.m
           /\ \E order \in Orders(DOMAIN r.scores) :
                LET label == maxMap(r.scores, order)
                IN  /\ kTokens' = [kTokens EXCEPT ![kPos + 1].Label = label]
                    /\ kHistory' = Append(kHistory, simplePOS(label))
    /\ kPos' = kPos + 1
    /\ UNCHANGED <<kPc, notClassify>>

\* `return tokens` (part_000:384).
classifyReturn ==
    /\ kPc = "loop"
    /\ kPos = Len(kTokens)
    /\ kPc' = "done"
    /\ UNCHANGED <<kModel, kTokens, kHistory, kPos, notClassify>>

classifyNext == classifyStep \/ classifyReturn

classifyIdle ==
    /\ kModel = noClassifier
    /\ kTokens = <<>>
    /\ kHistory = <<>>
    /\ kPos = 0
    /\ kPc = "idle"

(***************************************************************************)
(* Two independent runs of extracterFromData on one corpus.  Each run's    *)
(* range loops over the score map visit the labels in an order of its own, *)
(* kept through the run: one of the orders Go's map iteration may take.    *)
(***************************************************************************)

\* The state of a run before its first round (part_000:303-323).
runStart(c) ==
    LET r == empiricalCount(c, encodeCorpus(c))
    IN  [m |-> [r.m EXCEPT !.weights = initialWeights(r.count)],
         count |-> NewVecDense(Len(r.count)),
         freq |-> [index \in 1..Len(r.count) |-> Log2(r.count[index])],
         unatt |-> unattestedOf(r.count)]

\* The run after one more iteration of the loop of estCount.
runEstimate(run, entry, order) ==
    LET r == estEntryIn([m |-> run.m, count |-> run.count], entry, order)
    IN  [run EXCEPT !.m = r.m, !.count = r.count]

\* The run after the rest of the round (part_000:326-342).
runUpdate(run) ==
    [run EXCEPT
        !.m.weights = extracterRound(@, run.count, run.freq, run.unatt,
                                     Div(One, FromInt(run.m.cardinality))),
        !.count = NewVecDense(Len(run.count))]

noRun == [m |-> noClassifier, count |-> <<>>, freq |-> <<>>, unatt |-> <<>>]

\* The corpus both runs are given, and each run's visiting order.
runsInit ==
    /\ runCorpus \in TrainCorpora
    /\ runOrders \in
         LET ls == encodeCorpus(runCorpus).labels
         IN  Orders({ ls[k] : k \in 1..Len(ls) }) \X Orders({ ls[k] : k \in 1..Len(ls) })
    /\ runs = << noRun, noRun >>
    /\ runEntry = 0
    /\ runRound = 0
    /\ runPc = "start"

\* Both runs reach their first round.
runsPrepare ==
    /\ runPc = "start"
    /\ runs' = << runStart(runCorpus), runStart(runCorpus) >>
    /\ runPc' = "round"
    /\ UNCHANGED <<runCorpus, runOrders, runEntry, runRound, notRuns>>

\* Both runs make one iteration of the loop of estCount.
runsEstimate ==
    /\ runPc = "round"
    /\ runEntry < Len(runCorpus)
    /\ runs' = [n \in 1..2 |->
                  runEstimate(runs[n], runCorpus[runEntry + 1], runOrders[n])]
    /\ runEntry' = runEntry + 1
    /\ UNCHANGED <<runCorpus, runOrders, runRound, runPc, notRuns>>

\* Both runs finish the round.
runsUpdate ==
    /\ runPc = "round"
    /\ runEntry = Len(runCorpus)
    /\ runs' = [n \in 1..2 |-> runUpdate(runs[n])]
    /\ runEntry' = 0
    /\ runRound' = runRound + 1
    /\ runPc' = IF runRound + 1 < Rounds THEN "round" ELSE "trained"
    /\ UNCHANGED <<runCorpus, runOrders, notRuns>>

\* Both runs return their classifier.
runsReturn ==
    /\ runPc = "trained"
    /\ runPc' = "done"
    /\ UNCHANGED <<runCorpus, runOrders, runs, runEntry, runRound, notRuns>>

runsNext == runsPrepare \/ runsEstimate \/ runsUpdate \/ runsReturn

runsIdle ==
    /\ runCorpus = <<>>
    /\ runOrders = << <<>>, <<>> >>
    /\ runs = << noRun, noRun >>
    /\ runEntry = 0
    /\ runRound = 0
    /\ runPc = "idle"

(***************************************************************************)
(* adjustPos, assignLabels and the body of the loop of makeCorpus.         *)
(***************************************************************************)

\* unicode.IsSpace, for the characters of the sample texts.
IsSpace(r) == r \in { " ", "\t", "\n" }

\* One call of the function adjustPos hands to strings.Map
\* (part_000:239-250), for the character at index k - 1.
adjustPosStep(st, text, start, end_, k) ==
    IF IsSpace(text[k])
    THEN [left |-> IF k - 1 < start THEN st.left + 1 ELSE st.left,
          right |-> IF k - 1 < end_ THEN st.right + 1 ELSE st.right]
    ELSE st

\* adjustPos (part_000:237-253).
adjustPos(text, start, end_) ==
    LET st == Loop(LAMBDA s, k : adjustPosStep(s, text, start, end_, k),
                   [left |-> 0, right |-> 0], 1, Len(text))
    IN  << start - st.left, end_ - st.right >>

\* One iteration of the token loop of assignLabels (part_000:275-282).
assignToken(st, tokens, span, start, end_, i) ==
    [history |->
        IF st.index = start THEN [st.history EXCEPT ![i] = BLabel(span.Label)]
        ELSE IF st.index > start /\ st.index < end_
        THEN [st.history EXCEPT ![i] = ILabel(span.Label)]
        ELSE st.history,
     index |-> st.index + Len(tokens[i].Text)]

\* One iteration of the span loop of assignLabels (part_000:272-283).
assignSpan(hist, tokens, text, span) ==
    LET pos == adjustPos(text, span.Start, span.End)
    IN  Loop(LAMBDA st, i : assignToken(st, tokens, span, pos[1], pos[2], i),
             [history |-> hist, index |-> 0], 1, Len(tokens)).history

\* assignLabels mutated: the spans are applied whatever Accept says.
assignLabelsMutIgnoreAccept(tokens, entity) ==
    Loop(LAMBDA hist, k : assignSpan(hist, tokens, entity.Text, entity.Spans[k]),
         [i \in 1..Len(tokens) |-> O], 1, Len(entity.Spans))

\* assignLabels (part_000:265-287).
assignLabels(tokens, entity) ==
    IF entity.Accept
    THEN Loop(LAMBDA hist, k : assignSpan(hist, tokens, entity.Text, entity.Spans[k]),
              [i \in 1..Len(tokens) |-> O], 1, Len(entity.Spans))
    ELSE [i \in 1..Len(tokens) |-> O]

\* Most spans in a training record.
MaxSpans == 1

\* Sample texts with the tagged tokens the tokenizer and the tagger give for
\* them.
LabelTexts ==
    { [Text |-> wAnn \o << " " >> \o w10 \o << " " >> \o wComma,
       tokens |-> << [Text |-> wAnn, Tag |-> NNP], [Text |-> w10, Tag |-> CD],
                     [Text |-> wComma, Tag |-> COMMA] >>],
      [Text |-> wPierre \o << " " >> \o wVinken,
       tokens |-> << [Text |-> wPierre, Tag |-> NNP], [Text |-> wVinken, Tag |-> NNP] >>] }

\* The spans of a text: any non-empty range of its characters.
SpansOf(text) ==
    { s \in [Start : 0..Len(text), End : 0..Len(text), Label : { PERSON }] :
        s.Start < s.End }

\* The record and its tokens, as makeCorpus has them before assignLabels
\* (part_000:291-293).
labelInit ==
    /\ \E t \in LabelTexts :
         /\ aTokens = t.tokens
         /\ \E n \in 0..MaxSpans :
              \E spans \in [1..n -> SpansOf(t.Text)] :
                \E accept \in BOOLEAN :
                    aEntity = [Accept |-> accept, Spans |-> spans, Text |-> t.Text]
    /\ aHistory = <<>>
    /\ aCorpus = <<>>
    /\ aPc = "assign"

\* history := assignLabels(tokens, entry) (part_000:294).
labelAssign ==
    /\ aPc = "assign"
    /\ aHistory' = assignLabels(aTokens, aEntity)
    /\ aPc' = "extract"
    /\ UNCHANGED <<aTokens, aEntity, aCorpus, notLabel>>

\* The record's examples are appended to the corpus (part_000:295-297).
labelExtract ==
    /\ aPc = "extract"
    /\ aCorpus' = aCorpus \o extractFeatures(aTokens, aHistory)
    /\ aPc' = "done"
    /\ UNCHANGED <<aTokens, aEntity, aHistory, notLabel>>

labelNext == labelAssign \/ labelExtract

labelIdle ==
    /\ aTokens = <<>>
    /\ aEntity = [Accept |-> FALSE, Spans |-> <<>>, Text |-> <<>>]
    /\ aHistory = <<>>
    /\ aCorpus = <<>>
    /\ aPc = "idle"

(***************************************************************************)
(* Two goroutines in byteJoin on one classifier: classify reaches it       *)
(* through encode with no lock held, and each statement of byteJoin reads  *)
(* the field m.buf anew.  A goroutine's steps are the statements of        *)
(* byteJoin; an index or a slice bound beyond the buffer panics.           *)
(***************************************************************************)

Goroutines == { 1, 2 }

\* copy(buf[off:], src): buf[off:] is out of range beyond len(buf); copy
\* stops at the end of the shorter of the two.
copyAt(buf, off, src) ==
    [k \in 1..Len(buf) |->
        IF k > off /\ k <= off + Len(src) THEN src[k - off] ELSE buf[k]]

\* A statement of byteJoin storing src at offset off of m.buf, which is in
\* range up to offset limit.
joinStore(g, from, to, off, src, limit) ==
    /\ jPc[g] = from
    /\ IF off <= limit
       THEN /\ jBuf' = copyAt(jBuf, off, src)
            /\ jPc' = [jPc EXCEPT ![g] = to]
       ELSE /\ jBuf' = jBuf
            /\ jPc' = [jPc EXCEPT ![g] = "panic"]
    /\ UNCHANGED <<jArgs, jRes, notJoin>>

\* n := len(a) + len(b) + len(c) + 2 (part_000:195).
joinLength(args) == Len(args.a) + Len(args.b) + Len(args.c) + 2

\* if len(m.buf) < n (part_000:196).
joinTest(g) ==
    /\ jPc[g] = "test"
    /\ jPc' = [jPc EXCEPT ![g] = IF Len(jBuf) < joinLength(jArgs[g]) THEN "make" ELSE "a"]
    /\ UNCHANGED <<jBuf, jArgs, jRes, notJoin>>

\* m.buf = make([]byte, n) (part_000:197).
joinMake(g) ==
    /\ jPc[g] = "make"
    /\ jBuf' = [k \in 1..joinLength(jArgs[g]) |-> NUL]
    /\ jPc' = [jPc EXCEPT ![g] = "a"]
    /\ UNCHANGED <<jArgs, jRes, notJoin>>

\* copy(m.buf[0:], []byte(a)) (part_000:199).
joinCopyA(g) == joinStore(g, "a", "jc1", 0, jArgs[g].a, Len(jBuf))

\* m.buf[len(a)] = jc (part_000:200).
joinSep1(g) == joinStore(g, "jc1", "b", Len(jArgs[g].a), << "-" >>, Len(jBuf) - 1)

\* copy(m.buf[len(a)+1:], []byte(b)) (part_000:201).
joinCopyB(g) == joinStore(g, "b", "jc2", Len(jArgs[g].a) + 1, jArgs[g].b, Len(jBuf))

\* m.buf[len(a)+len(b)+1] = jc (part_000:202).
joinSep2(g) ==
    joinStore(g, "jc2", "c", Len(jArgs[g].a) + Len(jArgs[g].b) + 1, << "-" >>,
              Len(jBuf) - 1)

\* copy(m.buf[len(a)+len(b)+2:], []byte(c)) (part_000:203).
joinCopyC(g) ==
    joinStore(g, "c", "res", Len(jArgs[g].a) + Len(jArgs[g].b) + 2, jArgs[g].c, Len(jBuf))

\* res := string(m.buf[:n]) (part_000:204), the key encode looks up.
joinResult(g) ==
    /\ jPc[g] = "res"
    /\ IF joinLength(jArgs[g]) <= Len(jBuf)
       THEN /\ jRes' = [jRes EXCEPT ![g] = SubSeq(jBuf, 1, joinLength(jArgs[g]))]
            /\ jPc' = [jPc EXCEPT ![g] = "done"]
       ELSE /\ jRes' = jRes
            /\ jPc' = [jPc EXCEPT ![g] = "panic"]
    /\ UNCHANGED <<jBuf, jArgs, notJoin>>

\* Arguments of byteJoin: a feature name, its value and a label.
JoinArgs ==
    { [a |-> << "w" >>, b |-> wAnn, c |-> O],
      [a |-> << "p", "o", "s" >>, b |-> NNP, c |-> B_PERSON],
      [a |-> << "w" >>, b |-> w10, c |-> O] }

\* Both goroutines are about to run byteJoin on a classifier that is new or
\* has built a key before.
joinInit ==
    /\ jBuf \in { << >>, << "w", "-", ",", "-", "O" >> }
    /\ jArgs \in [Goroutines -> JoinArgs]
    /\ jRes = [g \in Goroutines |-> << >>]
    /\ jPc = [g \in Goroutines |-> "test"]

joinNext ==
    \E g \in Goroutines :
        \/ joinTest(g)
        \/ joinMake(g)
        \/ joinCopyA(g)
        \/ joinSep1(g)
        \/ joinCopyB(g)
        \/ joinSep2(g)
        \/ joinCopyC(g)
        \/ joinResult(g)

joinIdle ==
    /\ jBuf = << >>
    /\ jArgs = << >>
    /\ jRes = << >>
    /\ jPc = << >>

(***************************************************************************)
(* Persistence: Model.Write, ModelFromDisk, ModelFromFS and the loaders.   *)
(* A file system maps each existing path (a sequence of names, <<>> the    *)
(* root) to a directory or to a file and what a gob decoder finds in it.   *)
(***************************************************************************)

\* A nil pointer, a nil error; a non-nil one is a one-element sequence.
nil == <<>>

dirEntry == [dir |-> TRUE]
fileEntry(content) == [dir |-> FALSE, content |-> content]

\* What gob writes for a value: its Go type and the value.  An empty or
\* damaged file holds no value of any type.
gobEncode(type, value) == [type |-> type, value |-> <<value>>]
noGob == [type |-> "", value |-> <<>>]

Parent(p) == SubSeq(p, 1, Len(p) - 1)
isDir(fs, p) == p \in DOMAIN fs /\ fs[p].dir

\* os.Mkdir: the parent must be a directory and the path must not exist.
Mkdir(fs, p) ==
    IF p \in DOMAIN fs THEN [fs |-> fs, err |-> << "file exists" >>]
    ELSE IF ~isDir(fs, Parent(p)) THEN [fs |-> fs, err |-> << "no such file or directory" >>]
    ELSE [fs |-> (p :> dirEntry) @@ fs, err |-> nil]

\* os.MkdirAll: nil when the path is a directory already, else the parents
\* first.
RECURSIVE MkdirAll(_, _)
MkdirAll(fs, p) ==
    IF isDir(fs, p) THEN [fs |-> fs, err |-> nil]
    ELSE IF p \in DOMAIN fs THEN [fs |-> fs, err |-> << "not a directory" >>]
    ELSE LET r == MkdirAll(fs, Parent(p))
         IN  IF r.err # nil THEN r ELSE Mkdir(r.fs, p)

\* os.Create: an empty file, truncated when it exists.
Create(fs, p) ==
    IF ~isDir(fs, Parent(p)) \/ isDir(fs, p)
    THEN [fs |-> fs, file |-> nil, err |-> << "open" >>]
    ELSE [fs |-> (p :> fileEntry(noGob)) @@ fs, file |-> <<p>>, err |-> nil]

\* gob.NewEncoder(file).Encode(value).
Encode(fs, file, type, value) ==
    IF file = nil THEN [fs |-> fs, err |-> << "invalid argument" >>]
    ELSE [fs |-> [fs EXCEPT ![file[1]] = fileEntry(gobEncode(type, value))], err |-> nil]

\* fs.FS.Open.
Open(fs, p) ==
    IF p \in DOMAIN fs THEN [file |-> <<fs[p]>>, err |-> nil]
    ELSE [file |-> nil, err |-> << "file does not exist" >>]

\* gob.NewDecoder(file).Decode(&v) for v of the given Go type.
Decode(file, type) ==
    IF file[1].dir THEN [value |-> nil, err |-> << "is a directory" >>]
    ELSE IF file[1].content = noGob THEN [value |-> nil, err |-> << "EOF" >>]
    ELSE IF file[1].content.type # type THEN [value |-> nil, err |-> << "wrong type" >>]
    ELSE [value |-> file[1].content.value, err |-> nil]

\* The Go types of the classifier's three fields (part_000:82-88).
TypeLabels == "[]string"
TypeMapping == "map[string]int"
TypeWeights == "[]float64"

MaxentDir == "Maxent"

\* The loop body of marshal mutated: every file gets the label list.
marshalEntryMutAllLabels(st, m, folder, i) ==
    LET entry == << "labels", "mapping", "weights" >>[i]
        c == Create(st.fs, Append(folder, entry \o ".gob"))
        e == Encode(c.fs, c.file, TypeLabels, m.labels)
    IN  [fs |-> e.fs, failed |-> st.failed \/ e.err # nil]

\* One iteration of the loop of marshal (part_000:116-125) for entry i of
\* {"labels", "mapping", "weights"}: the error of os.Create is dropped and a
\* failed Encode goes to checkError.
marshalEntry(st, m, folder, i) ==
    LET entry == << "labels", "mapping", "weights" >>[i]
        c == Create(st.fs, Append(folder, entry \o ".gob"))
        e == IF i = 1 THEN Encode(c.fs, c.file, TypeLabels, m.labels)
             ELSE IF i = 2 THEN Encode(c.fs, c.file, TypeMapping, m.mapping)
             ELSE Encode(c.fs, c.file, TypeWeights, m.weights)
    IN  [fs |-> e.fs, failed |-> st.failed \/ e.err # nil]

\* binaryMaxentClassifier.marshal (part_000:112-127): returns the error of
\* os.Mkdir whatever the loop did.
marshal(fs, m, path) ==
    LET folder == Append(path, MaxentDir)
        d == Mkdir(fs, folder)
        w == Loop(LAMBDA st, i : marshalEntry(st, m, folder, i),
                  [fs |-> d.fs, failed |-> FALSE], 1, 3)
    IN  [fs |-> w.fs, err |-> d.err, failed |-> w.failed]

\* Model.Write (part_002:316-323).
Write(fs, model, path) ==
    LET d == MkdirAll(fs, path)
    IN  IF d.err # nil
        THEN [fs |-> d.fs, err |-> << "unable to open directory" >>, failed |-> FALSE]
        ELSE marshal(d.fs, model.extracter[1].model, path)

\* The embedded assets NewPerceptronTagger reads, in its order
\* (tag.go:283-313).
TaggerAssets == << "classes.gob", "tags.gob", "weights.gob", "weights-linear.gob" >>

\* The tagger the embedded assets decode to.
embeddedTagger == CHOOSE t \in TaggerModels : Len(t.classes) = 2

\* Every embedded asset is there and decodes.
assetsOk(as) == \A k \in 1..Len(TaggerAssets) : as[TaggerAssets[k]] = "ok"

\* NewPerceptronTagger (tag.go:277-316): each asset is read, then decoded;
\* the first failure returns nil and the error.
NewPerceptronTagger(as) ==
    IF ~assetsOk(as)
    THEN LET k == CHOOSE j \in 1..Len(TaggerAssets) :
                    /\ as[TaggerAssets[j]] # "ok"
                    /\ \A i \in 1..(j - 1) : as[TaggerAssets[i]] = "ok"
         IN  [tagger |-> nil,
              err |-> << IF as[TaggerAssets[k]] = "missing"
                         THEN "unable to read " \o TaggerAssets[k]
                         ELSE "unable to decode " \o TaggerAssets[k] >>]
    ELSE [tagger |-> << embeddedTagger >>, err |-> nil]

\* newTrainedEntityExtracter (part_000:153-155).
newTrainedEntityExtracter(model) == [model |-> model]

\* loadClassifier (part_002:345-385) mutated: a failed decode of weights.gob
\* is ignored and the classifier built with the nil weights.
loadClassifierMutKeepGoing(fs, base) ==
    LET maxent == Append(base, MaxentDir)
        fm == Open(fs, Append(maxent, "mapping.gob"))
        fw == Open(fs, Append(maxent, "weights.gob"))
        fl == Open(fs, Append(maxent, "labels.gob"))
    IN  IF fm.err # nil THEN [extracter |-> nil, err |-> << "unable to open mapping.gob" >>]
        ELSE IF Decode(fm.file, TypeMapping).err # nil
        THEN [extracter |-> nil, err |-> << "unable to decode mapping" >>]
        ELSE IF fw.err # nil THEN [extracter |-> nil, err |-> << "unable to open weights.gob" >>]
        ELSE IF fl.err # nil THEN [extracter |-> nil, err |-> << "unable to open labels.gob" >>]
        ELSE IF Decode(fl.file, TypeLabels).err # nil
        THEN [extracter |-> nil, err |-> << "unable to decode labels" >>]
        ELSE [extracter |->
                << newTrainedEntityExtracter(
                     newMaxentClassifier(
                        IF Decode(fw.file, TypeWeights).err # nil THEN <<>>
                        ELSE Decode(fw.file, TypeWeights).value[1],
                        Decode(fm.file, TypeMapping).value[1],
                        Decode(fl.file, TypeLabels).value[1])) >>,
              err |-> nil]

\* loadClassifier (part_002:345-385) on the sub-tree of fs at base.  fs.Sub
\* itself does not look at the tree: a missing Maxent directory shows when
\* the first file is opened.
loadClassifier(fs, base) ==
    LET maxent == Append(base, MaxentDir)
        fm == Open(fs, Append(maxent, "mapping.gob"))
        fw == Open(fs, Append(maxent, "weights.gob"))
        fl == Open(fs, Append(maxent, "labels.gob"))
    IN  IF fm.err # nil THEN [extracter |-> nil, err |-> << "unable to open mapping.gob" >>]
        ELSE IF Decode(fm.file, TypeMapping).err # nil
        THEN [extracter |-> nil, err |-> << "unable to decode mapping" >>]
        ELSE IF fw.err # nil THEN [extracter |-> nil, err |-> << "unable to open weights.gob" >>]
        ELSE IF Decode(fw.file, TypeWeights).err # nil
        THEN [extracter |-> nil, err |-> << "unable to decode weights" >>]
        ELSE IF fl.err # nil THEN [extracter |-> nil, err |-> << "unable to open labels.gob" >>]
        ELSE IF Decode(fl.file, TypeLabels).err # nil
        THEN [extracter |-> nil, err |-> << "unable to decode labels" >>]
        ELSE [extracter |->
                << newTrainedEntityExtracter(
                     newMaxentClassifier(Decode(fw.file, TypeWeights).value[1],
                                         Decode(fm.file, TypeMapping).value[1],
                                         Decode(fl.file, TypeLabels).value[1])) >>,
              err |-> nil]

\* filepath.Base of a non-empty path.
Base(path) == path[Len(path)]

\* ModelFromDisk (part_002:258-275); os.DirFS(path) is the tree at path.
ModelFromDisk(fs, as, path) ==
    LET t == NewPerceptronTagger(as)
        c == loadClassifier(fs, path)
    IN  IF t.err # nil
        THEN [model |-> nil, err |-> << "unable to load POS tager from disk" >>]
        ELSE IF c.err # nil
        THEN [model |-> nil, err |-> << "unable to load classifier from disk" >>]
        ELSE [model |-> << [Name |-> Base(path), extracter |-> c.extracter,
                            tagger |-> t.tagger] >>,
              err |-> nil]

\* The names of the model's file systems in byte order, the order in which
\* fs.WalkDir reads a directory.
SortedNames ==
    << "Maxent", "PRODUCT", "labels.gob", "mapping.gob", "temp", "testdata", "weights.gob" >>

NameRank(name) == CHOOSE k \in 1..Len(SortedNames) : SortedNames[k] = name

\* p is visited before q by fs.WalkDir: a directory before what it holds,
\* the entries of a directory by name.
RECURSIVE WalksBefore(_, _)
WalksBefore(p, q) ==
    IF Len(q) = 0 THEN FALSE
    ELSE IF Len(p) = 0 THEN TRUE
    ELSE IF p[1] # q[1] THEN NameRank(p[1]) < NameRank(q[1])
    ELSE WalksBefore(Tail(p), Tail(q))

\* d.Name() of the entry at p; the root's is ".".
EntryName(p) == IF Len(p) = 0 THEN "." ELSE p[Len(p)]

\* The walk of ModelFromFS (part_002:281-297): the first entry named name
\* ends it with io.EOF; without one it ends with a nil error.
locate(fs, name) ==
    LET found == { p \in DOMAIN fs : EntryName(p) = name }
    IN  IF found = {} THEN [modelFS |-> nil, err |-> nil]
        ELSE [modelFS |-> << CHOOSE p \in found :
                                \A q \in found \ { p } : WalksBefore(p, q) >>,
              err |-> << "EOF" >>]

\* ModelFromFS (part_002:278-313).
ModelFromFS(fs, as, name) ==
    LET w == locate(fs, name)
        t == NewPerceptronTagger(as)
    IN  IF w.err # << "EOF" >>
        THEN [model |-> nil, err |-> << "expected EOF but got" >>]
        ELSE IF t.err # nil
        THEN [model |-> nil, err |-> << "unable to create POS tagger FS" >>]
        ELSE IF loadClassifier(fs, w.modelFS[1]).err # nil
        THEN [model |-> nil, err |-> << "unable to load classifier from FS" >>]
        ELSE [model |-> << [Name |-> name,
                            extracter |-> loadClassifier(fs, w.modelFS[1]).extracter,
                            tagger |-> t.tagger] >>,
              err |-> nil]

\* Most calls made in one run.
MaxDiskCalls == 2

\* A trained classifier: the vocabulary of one sentence, and weights.
diskClassifier(s, a, b) ==
    LET m == encodeCorpus(makeCorpus(<< s >>))
    IN  [m EXCEPT !.weights = [i \in 1..(Cardinality(DOMAIN m.mapping) + 1) |->
                                  IF i % 2 = 1 THEN a ELSE b]]

\* The models the program may hold and write: trained from data, the name
\* given by the caller of ModelFromData (part_002:245-256), which first
\* builds the tagger from the embedded assets.
HeldModels ==
    { [Name |-> "trained", extracter |-> << newTrainedEntityExtracter(c) >>,
       tagger |-> << embeddedTagger >>] :
        c \in { diskClassifier(samplePierre, Zero, NInf),
                diskClassifier(sampleNumber, Ratio(1, 2), FromInt(-1)) } }

\* The classifier an earlier run saved under PRODUCT.
storedClassifier == diskClassifier(sampleVinken, FromInt(-1), Zero)

FileStates == { "ok", "missing", "malformed" }

\* The file of PRODUCT/Maxent in the given state: a malformed mapping.gob or
\* labels.gob holds a value of another type, a malformed weights.gob is
\* empty.
storedFile(name, state) ==
    IF state = "malformed"
    THEN fileEntry(IF name = "weights.gob" THEN noGob
                   ELSE gobEncode(TypeWeights, storedClassifier.weights))
    ELSE fileEntry(IF name = "labels.gob" THEN gobEncode(TypeLabels, storedClassifier.labels)
                   ELSE IF name = "mapping.gob"
                   THEN gobEncode(TypeMapping, storedClassifier.mapping)
                   ELSE gobEncode(TypeWeights, storedClassifier.weights))

ClassifierFiles == { "labels.gob", "mapping.gob", "weights.gob" }

\* File systems: empty; with an empty PRODUCT directory; with
\* PRODUCT/Maxent and each of its three files present, absent or malformed.
FileSystems ==
    { << >> :> dirEntry, (<< >> :> dirEntry) @@ (<< "PRODUCT" >> :> dirEntry) }
    \cup { [p \in { << >>, << "PRODUCT" >>, << "PRODUCT", MaxentDir >> }
                  \cup { << "PRODUCT", MaxentDir, f >> :
                           f \in { g \in ClassifierFiles : st[g] # "missing" } } |->
              IF Len(p) < 3 THEN dirEntry ELSE storedFile(p[3], st[p[3]])] :
            st \in [ClassifierFiles -> FileStates] }

\* The embedded tagger assets: all good, or one of them absent or malformed.
AssetStates ==
    { [a \in { TaggerAssets[k] : k \in 1..Len(TaggerAssets) } |->
          IF a = bad THEN how ELSE "ok"] :
        bad \in { TaggerAssets[k] : k \in 1..Len(TaggerAssets) } \cup { "" },
        how \in { "missing", "malformed" } }

\* The locations written to and loaded from, and the names looked for.
DiskPaths == { << "PRODUCT" >>, << "testdata", "temp" >> }
DiskNames == { "PRODUCT", "temp", MaxentDir }

noDiskCall == [op |-> "", arg |-> << >>, fresh |-> FALSE]
noDiskReturn == [model |-> nil, err |-> nil]

diskInit ==
    /\ fsys \in FileSystems
    /\ assets \in AssetStates
    /\ held \in IF assetsOk(assets) THEN { << h >> : h \in HeldModels } ELSE { nil }
    /\ dCall = noDiskCall
    /\ dRet = noDiskReturn
    /\ dCalls = 0

\* held.Write(path); dCall.fresh tells whether nothing was at path before.
diskWrite ==
    /\ dCalls < MaxDiskCalls
    /\ held # nil
    /\ \E path \in DiskPaths :
         LET r == Write(fsys, held[1], path)
         IN  /\ fsys' = r.fs
             /\ dCall' = [op |-> "Write", arg |-> path, fresh |-> path \notin DOMAIN fsys]
             /\ dRet' = [model |-> nil, err |-> r.err]
    /\ dCalls' = dCalls + 1
    /\ UNCHANGED <<assets, held, notDisk>>

\* ModelFromDisk(path).
diskModelFromDisk ==
    /\ dCalls < MaxDiskCalls
    /\ \E path \in DiskPaths :
         /\ dCall' = [op |-> "ModelFromDisk", arg |-> path, fresh |-> FALSE]
         /\ dRet' = ModelFromDisk(fsys, assets, path)
    /\ dCalls' = dCalls + 1
    /\ UNCHANGED <<fsys, assets, held, notDisk>>

\* ModelFromFS(name, filesys), filesys the whole tree.
diskModelFromFS ==
    /\ dCalls < MaxDiskCalls
    /\ \E name \in DiskNames :
         /\ dCall' = [op |-> "ModelFromFS", arg |-> << name >>, fresh |-> FALSE]
         /\ dRet' = ModelFromFS(fsys, assets, name)
    /\ dCalls' = dCalls + 1
    /\ UNCHANGED <<fsys, assets, held, notDisk>>

diskNext == diskWrite \/ diskModelFromDisk \/ diskModelFromFS

diskIdle ==
    /\ fsys = << >> :> dirEntry
    /\ assets = << >>
    /\ held = nil
    /\ dCall = noDiskCall
    /\ dRet = noDiskReturn
    /\ dCalls = 0

(***************************************************************************)
(* The tokenizer: hasAnyPrefix, hasAnySuffix, hasAnyIndex, addToken,       *)
(* isSpecial and the loop of doSplit, one step per iteration.  The texts   *)
(* are ASCII, so a rune is a byte and utf8.RuneCountInString is len.       *)
(***************************************************************************)

\* strings.HasPrefix and strings.HasSuffix.
HasPrefix(s, p) == Len(s) >= Len(p) /\ SubSeq(s, 1, Len(p)) = p
HasSuffix(s, p) == Len(s) >= Len(p) /\ LastN(s, Len(p)) = p

\* strings.Index: the 0-based index of the first occurrence of sub in s, -1
\* when there is none.
RECURSIVE IndexAt(_, _, _)
IndexAt(s, sub, k) ==
    IF k + Len(sub) > Len(s) THEN -1
    ELSE IF SubSeq(s, k + 1, k + Len(sub)) = sub THEN k
    ELSE IndexAt(s, sub, k + 1)

Index(s, sub) == IndexAt(s, sub, 0)

\* hasAnyPrefix (model_test.go:123-131).
hasAnyPrefix(s, list) ==
    \E k \in 1..Len(list) : Len(s) > Len(list[k]) /\ HasPrefix(s, list[k])

\* hasAnySuffix (model_test.go:133-141).
hasAnySuffix(s, list) ==
    \E k \in 1..Len(list) : Len(s) > Len(list[k]) /\ HasSuffix(s, list[k])

\* hasAnyIndex (model_test.go:143-152): the index of the first entry of the
\* list, from entry k on, that occurs in s and is shorter than s.
RECURSIVE hasAnyIndexFrom(_, _, _)
hasAnyIndexFrom(s, list, k) ==
    IF k > Len(list) THEN -1
    ELSE LET at == Index(s, list[k])
         IN  IF at >= 0 /\ Len(s) > Len(list[k]) THEN at
             ELSE hasAnyIndexFrom(s, list, k + 1)

hasAnyIndex(s, list) == hasAnyIndexFrom(s, list, 1)

\* The defaults of NewIterTokenizer (part_004:211-213); splitCases is the
\* empty list with the contractions appended (part_004:104).
contractions ==
    << << "'", "l", "l" >>, << "'", "s" >>, << "'", "r", "e" >>, << "'", "m" >>,
       << "n", "'", "t" >> >>
suffixes ==
    << << "," >>, << ")" >>, << "\"" >>, << "]" >>, << "!" >>, << ";" >>, << "." >>,
       << "?" >>, << ":" >>, << "'" >> >>
prefixes == << << "$" >>, << "(" >>, << "\"" >>, << "[" >> >>
splitCases == << >> \o contractions

\* internalRE (part_004:204): ^(?:[A-Za-z]\.){2,}$|^[A-Z][a-z]{1,2}\.$
internalRE(w) ==
    \/ /\ Len(w) >= 4
       /\ Len(w) % 2 = 0
       /\ \A k \in 1..Len(w) :
            IF k % 2 = 1 THEN w[k] \in Upper \cup Lower ELSE w[k] = "."
    \/ /\ Len(w) \in 3..4
       /\ w[1] \in Upper
       /\ AllIn(SubSeq(w, 2, Len(w) - 1), Lower)
       /\ w[Len(w)] = "."

\* isSpecial (part_004:116-119); the default isUnsplittable returns false.
isSpecial(token) == token \in emoticons \/ internalRE(token) \/ FALSE

\* addToken (part_004:109-114), the tokens kept as their texts.
addToken(s, toks) ==
    IF \E k \in 1..Len(s) : ~IsSpace(s[k]) THEN Append(toks, s) ELSE toks

\* The locals of doSplit on entry (part_004:122-125).
doSplitEnter(span) ==
    [token |-> span, tokens |-> << >>, suffs |-> << >>, last |-> 0, broke |-> FALSE]

\* The loop guard without the test of last.
doSplitGuardMutNoLast(st) == ~st.broke /\ st.token # << >>

\* The loop guard (part_004:126), false as well once the body has broken out.
doSplitGuard(st) == ~st.broke /\ st.token # << >> /\ Len(st.token) # st.last

\* The branch an iteration takes (part_004:127-153).
doSplitBranch(token) ==
    IF isSpecial(token) THEN "special"
    ELSE IF hasAnyPrefix(token, prefixes) THEN "prefix"
    ELSE IF hasAnyIndex(ToLower(token), splitCases) > -1 THEN "case"
    ELSE IF hasAnySuffix(token, suffixes) THEN "suffix"
    ELSE "whole"

\* The token is special: it is added whole and the loop is left
\* (part_004:127-132).
doSplitSpecial(st) == [st EXCEPT !.tokens = addToken(st.token, @), !.broke = TRUE]

\* The token begins with a prefix: its first byte becomes a token
\* (part_004:133-138).
doSplitPrefix(st) ==
    [st EXCEPT !.last = Len(st.token),
               !.tokens = addToken(<< st.token[1] >>, @),
               !.token = Tail(@)]

\* The token holds a split case: what is before it becomes a token
\* (part_004:133-134, 139-146).
doSplitCase(st) ==
    LET cut == hasAnyIndex(ToLower(st.token), splitCases)
    IN  [st EXCEPT !.last = Len(st.token),
                   !.tokens = addToken(SubSeq(st.token, 1, cut), @),
                   !.token = SubSeq(@, cut + 1, Len(@))]

\* The token ends with a suffix: its last byte is put before the suffixes
\* cut off so far (part_004:133-134, 147-152).
doSplitSuffix(st) ==
    [st EXCEPT !.last = Len(st.token),
               !.suffs = << << st.token[Len(st.token)] >> >> \o @,
               !.token = SubSeq(@, 1, Len(@) - 1)]

\* Otherwise the token is added whole (part_004:133-134, 153-155).
doSplitWhole(st) ==
    [st EXCEPT !.last = Len(st.token), !.tokens = addToken(st.token, @)]

\* The loop body taking the given branch (part_004:127-155).
doSplitTake(st, branch) ==
    IF branch = "special" THEN doSplitSpecial(st)
    ELSE IF branch = "prefix" THEN doSplitPrefix(st)
    ELSE IF branch = "case" THEN doSplitCase(st)
    ELSE IF branch = "suffix" THEN doSplitSuffix(st)
    ELSE doSplitWhole(st)

\* The loop body (part_004:127-155).
doSplitBody(st) == doSplitTake(st, doSplitBranch(st.token))

\* The loop of doSplit (part_004:126-156).
RECURSIVE doSplitLoop(_)
doSplitLoop(st) == IF doSplitGuard(st) THEN doSplitLoop(doSplitBody(st)) ELSE st

\* `return append(tokens, suffs...)` (part_004:158), the tokens kept as their
\* texts.
doSplitReturn(st) == st.tokens \o st.suffs

\* doSplit (part_004:121-159): the texts of the tokens it returns.
doSplit(span) == doSplitReturn(doSplitLoop(doSplitEnter(span)))

\* Longest span handed to doSplit.
MaxSpanLen == 3

\* The characters of the spans: a letter in both cases, the characters of a
\* split case, a prefix, suffixes, and those of an emoticon.
SpanChars == { "a", "S", "s", "'", ".", "$", ")", ":" }

\* The whitespace-free spans Tokenize cuts out of a text.
Spans == UNION { [1..n -> SpanChars] : n \in 1..MaxSpanLen }

\* The locals of the running doSplit.
splitLocals ==
    [token |-> sToken, tokens |-> sTokens, suffs |-> sSuffs, last |-> sLast,
     broke |-> sPc = "break"]

\* No call of doSplit has been made yet.
splitInit ==
    /\ sSpan = << >>
    /\ sToken = << >>
    /\ sTokens = << >>
    /\ sSuffs = << >>
    /\ sLast = 0
    /\ sOut = << >>
    /\ sPc = "call"

\* Tokenize calls doSplit on a span (part_004:183, 199): the locals are set
\* up (part_004:122-125).
splitCall ==
    /\ sPc = "call"
    /\ \E span \in Spans :
          LET enter == doSplitEnter(span)
          IN  /\ sSpan' = span
              /\ sToken' = enter.token
              /\ sTokens' = enter.tokens
              /\ sSuffs' = enter.suffs
              /\ sLast' = enter.last
    /\ sPc' = "loop"
    /\ UNCHANGED <<sOut, notSplit>>

\* An iteration on a special token (part_004:127-132).
splitSpecial ==
    /\ sPc = "loop"
    /\ doSplitGuard(splitLocals)
    /\ doSplitBranch(sToken) = "special"
    /\ LET next == doSplitSpecial(splitLocals)
       IN  /\ sToken' = next.token
           /\ sTokens' = next.tokens
           /\ sSuffs' = next.suffs
           /\ sLast' = next.last
    /\ sPc' = "break"
    /\ UNCHANGED <<sSpan, sOut, notSplit>>

\* An iteration on a token that begins with a prefix (part_004:135-138).
splitPrefix ==
    /\ sPc = "loop"
    /\ doSplitGuard(splitLocals)
    /\ doSplitBranch(sToken) = "prefix"
    /\ LET next == doSplitPrefix(splitLocals)
       IN  /\ sToken' = next.token
           /\ sTokens' = next.tokens
           /\ sSuffs' = next.suffs
           /\ sLast' = next.last
    /\ sPc' = "loop"
    /\ UNCHANGED <<sSpan, sOut, notSplit>>

\* An iteration on a token that holds a split case (part_004:139-146).
splitCase ==
    /\ sPc = "loop"
    /\ doSplitGuard(splitLocals)
    /\ doSplitBranch(sToken) = "case"
    /\ LET next == doSplitCase(splitLocals)
       IN  /\ sToken' = next.token
           /\ sTokens' = next.tokens
           /\ sSuffs' = next.suffs
           /\ sLast' = next.last
    /\ sPc' = "loop"
    /\ UNCHANGED <<sSpan, sOut, notSplit>>

\* An iteration on a token that ends with a suffix (part_004:147-152).
splitSuffix ==
    /\ sPc = "loop"
    /\ doSplitGuard(splitLocals)
    /\ doSplitBranch(sToken) = "suffix"
    /\ LET next == doSplitSuffix(splitLocals)
       IN  /\ sToken' = next.token
           /\ sTokens' = next.tokens
           /\ sSuffs' = next.suffs
           /\ sLast' = next.last
    /\ sPc' = "loop"
    /\ UNCHANGED <<sSpan, sOut, notSplit>>

\* An iteration on any other token (part_004:153-155).
splitWhole ==
    /\ sPc = "loop"
    /\ doSplitGuard(splitLocals)
    /\ doSplitBranch(sToken) = "whole"
    /\ LET next == doSplitWhole(splitLocals)
       IN  /\ sToken' = next.token
           /\ sTokens' = next.tokens
           /\ sSuffs' = next.suffs
           /\ sLast' = next.last
    /\ sPc' = "loop"
    /\ UNCHANGED <<sSpan, sOut, notSplit>>

\* `return append(tokens, suffs...)` (part_004:158).
splitReturn ==
    /\ sPc \in { "loop", "break" }
    /\ ~doSplitGuard(splitLocals)
    /\ sOut' = doSplitReturn(splitLocals)
    /\ sPc' = "done"
    /\ UNCHANGED <<sSpan, sToken, sTokens, sSuffs, sLast, notSplit>>

splitNext ==
    \/ splitCall
    \/ splitSpecial
    \/ splitPrefix
    \/ splitCase
    \/ splitSuffix
    \/ splitWhole
    \/ splitReturn

\* doSplit is not running.
splitIdle ==
    /\ sSpan = << >>
    /\ sToken = << >>
    /\ sTokens = << >>
    /\ sSuffs = << >>
    /\ sLast = 0
    /\ sOut = << >>
    /\ sPc = "idle"

(***************************************************************************)
(* Tokenize followed by Tag, as makeCorpus and the document pipeline call  *)
(* them.  A *Token is the index of its Token in the heap, so that two      *)
(* positions of a slice may hold one Token, and a write through one is     *)
(* seen through the other.                                                 *)
(***************************************************************************)

\* sanitizer.Replace (part_004:205-210) for "&rsquo;"; the curly quotes it
\* also rewrites are not among the characters of the sample texts.
rsquo == << "&", "r", "s", "q", "u", "o", ";" >>

RECURSIVE sanitize(_)
sanitize(text) ==
    IF text = << >> THEN << >>
    ELSE IF HasPrefix(text, rsquo)
         THEN << "'" >> \o sanitize(SubSeq(text, Len(rsquo) + 1, Len(text)))
    ELSE << text[1] >> \o sanitize(Tail(text))

\* The Tokens allocated for the given texts, `&Token{Text: s}`
\* (part_004:111), and the pointers to them.
newTokens(heap, texts) ==
    [heap |-> heap \o [k \in 1..Len(texts) |->
                          [Text |-> texts[k], Tag |-> << >>, Label |-> << >>]],
     ptrs |-> [k \in 1..Len(texts) |-> Len(heap) + k]]

\* The tokens of a span just split are appended (part_004:185, 199).
tokenizeAppend(st, new) == [st EXCEPT !.heap = new.heap, !.tokens = @ \o new.ptrs]

\* A span is split, and its tokens are cached and appended
\* (part_004:183-185).
tokenizeSplit(st, span, new) ==
    [tokenizeAppend(st, new) EXCEPT !.cache = (span :> new.ptrs) @@ @]

\* The span before byte `index`, if any, is appended: from the cache when it
\* was seen before, else split (part_004:178-187).
tokenizeFlush(st, index, span) ==
    IF ~(st.start < index) THEN st
    ELSE IF span \in DOMAIN st.cache THEN [st EXCEPT !.tokens = @ \o st.cache[span]]
    ELSE tokenizeSplit(st, span, newTokens(st.heap, doSplit(span)))

\* The byte `index` starts or ends a run of white space (part_004:177-194).
tokenizeTurn(st, index, uc, clean) ==
    [tokenizeFlush(st, index, SubSeq(clean, st.start + 1, index))
        EXCEPT !.start = IF uc = " " THEN index + 1 ELSE index,
               !.white = ~@]

\* One iteration of the loop of Tokenize at byte `index`, white being as
\* the code has it after line 176 (part_004:171-196).
tokenizeAt(st, index, clean) ==
    IF IsSpace(clean[index + 1]) = st.white THEN st
    ELSE tokenizeTurn(st, index, clean[index + 1], clean)

\* `white = unicode.IsSpace(uc)` at index 0 (part_004:174-176).
tokenizeWhite(st, index, clean) ==
    IF index = 0 THEN [st EXCEPT !.white = IsSpace(clean[1])] ELSE st

\* The loop of Tokenize from byte `index` on (part_004:170-196).
RECURSIVE tokenizeFrom(_, _, _)
tokenizeFrom(st, index, clean) ==
    IF index >= Len(clean) THEN st
    ELSE tokenizeFrom(tokenizeAt(tokenizeWhite(st, index, clean), index, clean),
                      index + 1, clean)

\* The last span, if any, is split and appended without a look at the cache
\* (part_004:198-200).
tokenizeLast(st, clean) ==
    IF st.start < Len(clean)
    THEN tokenizeAppend(st, newTokens(st.heap,
                                      doSplit(SubSeq(clean, st.start + 1, Len(clean)))))
    ELSE st

\* The locals of Tokenize on entry (part_004:163-169).
tokenizeEnter ==
    [tokens |-> << >>, white |-> FALSE, start |-> 0, cache |-> << >>, heap |-> << >>]

\* `return tokens` (part_004:202), with the heap the pointers point into.
tokenizeReturn(st) == [heap |-> st.heap, tokens |-> st.tokens]

\* Tokenize (part_004:162-203): the heap of the Tokens allocated and the
\* slice of pointers returned.
Tokenize(text) ==
    tokenizeReturn(tokenizeLast(tokenizeFrom(tokenizeEnter, 0, sanitize(text)),
                                sanitize(text)))

\* Most words in a text.
MaxTextWords == 4

wAnnComma == << "A", "n", "n", "," >>

\* The words of the texts.
TextWords == { wSmile, wAnn, wThe, wAnnComma }

\* The texts: words separated by one space.
Texts ==
    { Join(ws, << " " >>) : ws \in UNION { [1..n -> TextWords] : n \in 1..MaxTextWords } }

\* The tokens a slice of pointers holds.
Deref(heap, ptrs) == [k \in 1..Len(ptrs) |-> heap[ptrs[k]]]

\* The call of Tokenize.
textInit ==
    /\ xText \in Texts
    /\ xTagger \in TaggerModels
    /\ xHeap = << >>
    /\ xToks = << >>
    /\ xChosen = << >>
    /\ xP1 = START
    /\ xP2 = START2
    /\ xPc = "tokenize"

\* What Tokenize returned is kept.
textStore(r) ==
    /\ xHeap' = r.heap
    /\ xToks' = r.tokens

\* Tokenize returns and Tag is entered (part_000:293).
textTokenize ==
    /\ xPc = "tokenize"
    /\ textStore(Tokenize(xText))
    /\ xPc' = "tag"
    /\ UNCHANGED <<xText, xTagger, xChosen, xP1, xP2, notText>>

\* One iteration of the token loop of Tag (tag.go:336-355): the tag chosen
\* is written into the Token that tokens[i] points to.
textTag ==
    /\ xPc = "tag"
    /\ Len(xChosen) < Len(xToks)
    /\ LET i == Len(xChosen)
           toks == Deref(xHeap, xToks)
           tag == tagDecision(xTagger, i, tagContext(toks), toks[i + 1].Text, xP1, xP2)
       IN  /\ xHeap' = [xHeap EXCEPT ![xToks[i + 1]].Tag = tag]
           /\ xChosen' = Append(xChosen, tag)
           /\ xP2' = xP1
           /\ xP1' = tag
    /\ UNCHANGED <<xText, xTagger, xToks, xPc, notText>>

\* `return tokens` (tag.go:357).
textReturn ==
    /\ xPc = "tag"
    /\ Len(xChosen) = Len(xToks)
    /\ xPc' = "done"
    /\ UNCHANGED <<xText, xTagger, xHeap, xToks, xChosen, xP1, xP2, notText>>

textNext == textTokenize \/ textTag \/ textReturn

\* The pipeline is not running.
textIdle ==
    /\ xText = << >>
    /\ xTagger = [classes |-> <<>>, tagMap |-> <<>>, linearWeights |-> <<>>]
    /\ xHeap = << >>
    /\ xToks = << >>
    /\ xChosen = << >>
    /\ xP1 = << >>
    /\ xP2 = << >>
    /\ xPc = "idle"

(***************************************************************************)
(* Specifications: one per component, the other components idle.           *)
(***************************************************************************)

InitChunk ==
    /\ chunkInit
    /\ tagIdle /\ encodeIdle /\ logsIdle
    /\ gisIdle /\ classifyIdle /\ runsIdle
    /\ diskIdle /\ labelIdle /\ joinIdle
    /\ splitIdle /\ textIdle
SpecChunk == InitChunk /\ [][chunkNext]_vars

InitTag ==
    /\ tagInit
    /\ chunkIdle /\ encodeIdle /\ logsIdle
    /\ gisIdle /\ classifyIdle /\ runsIdle
    /\ diskIdle /\ labelIdle /\ joinIdle
    /\ splitIdle /\ textIdle
SpecTag == InitTag /\ [][tagNext]_vars

InitEncode ==
    /\ encodeInit
    /\ chunkIdle /\ tagIdle /\ logsIdle
    /\ gisIdle /\ classifyIdle /\ runsIdle
    /\ diskIdle /\ labelIdle /\ joinIdle
    /\ splitIdle /\ textIdle
SpecEncode == InitEncode /\ [][encodeNext]_vars

InitLogs ==
    /\ logsInit
    /\ chunkIdle /\ tagIdle /\ encodeIdle
    /\ gisIdle /\ classifyIdle /\ runsIdle
    /\ diskIdle /\ labelIdle /\ joinIdle
    /\ splitIdle /\ textIdle
SpecLogs == InitLogs /\ [][logsNext]_vars

InitGIS ==
    /\ gisInit
    /\ chunkIdle /\ tagIdle /\ encodeIdle
    /\ logsIdle /\ classifyIdle /\ runsIdle
    /\ diskIdle /\ labelIdle /\ joinIdle
    /\ splitIdle /\ textIdle
SpecGIS == InitGIS /\ [][gisNext]_vars

InitClassify ==
    /\ classifyInit
    /\ chunkIdle /\ tagIdle /\ encodeIdle
    /\ logsIdle /\ gisIdle /\ runsIdle
    /\ diskIdle /\ labelIdle /\ joinIdle
    /\ splitIdle /\ textIdle
SpecClassify == InitClassify /\ [][classifyNext]_vars

InitRuns ==
    /\ runsInit
    /\ chunkIdle /\ tagIdle /\ encodeIdle
    /\ logsIdle /\ gisIdle /\ classifyIdle
    /\ diskIdle /\ labelIdle /\ joinIdle
    /\ splitIdle /\ textIdle
SpecRuns == InitRuns /\ [][runsNext]_vars

InitDisk ==
    /\ diskInit
    /\ chunkIdle /\ tagIdle /\ encodeIdle
    /\ logsIdle /\ gisIdle /\ classifyIdle
    /\ runsIdle /\ labelIdle /\ joinIdle
    /\ splitIdle /\ textIdle
SpecDisk == InitDisk /\ [][diskNext]_vars

InitLabel ==
    /\ labelInit
    /\ chunkIdle /\ tagIdle /\ encodeIdle
    /\ logsIdle /\ gisIdle /\ classifyIdle
    /\ runsIdle /\ diskIdle /\ joinIdle
    /\ splitIdle /\ textIdle
SpecLabel == InitLabel /\ [][labelNext]_vars

InitJoin ==
    /\ joinInit
    /\ chunkIdle /\ tagIdle /\ encodeIdle
    /\ logsIdle /\ gisIdle /\ classifyIdle
    /\ runsIdle /\ diskIdle /\ labelIdle
    /\ splitIdle /\ textIdle
SpecJoin == InitJoin /\ [][joinNext]_vars

InitSplit ==
    /\ splitInit
    /\ chunkIdle /\ tagIdle /\ encodeIdle
    /\ logsIdle /\ gisIdle /\ classifyIdle
    /\ runsIdle /\ diskIdle /\ labelIdle
    /\ joinIdle /\ textIdle
SpecSplit == InitSplit /\ [][splitNext]_vars

InitText ==
    /\ textInit
    /\ chunkIdle /\ tagIdle /\ encodeIdle
    /\ logsIdle /\ gisIdle /\ classifyIdle
    /\ runsIdle /\ diskIdle /\ labelIdle
    /\ joinIdle /\ splitIdle
SpecText == InitText /\ [][textNext]_vars

\* doSplit keeps running until it returns.
SpecSplitLive == InitSplit /\ [][splitNext]_vars /\ WF_vars(splitNext)

(***************************************************************************)
(* Properties of chunk.                                                    *)
(***************************************************************************)

\* A three-token input labeled [B-X, I-X, O] whose O token's POS tag is neither
\* the second token's tag nor CD.
BIOTriple(toks, cat) ==
    /\ Len(toks) = 3
    /\ toks[1].Label = BLabel(cat)
    /\ toks[2].Label = ILabel(cat)
    /\ toks[3].Label = O
    /\ toks[3].Tag # toks[2].Tag
    /\ toks[3].Tag # CD

SuffixAfterDash(label) ==
    LET k == IndexOf(label, "-")
        rest == SubSeq(label, k + 1, Len(label))
        j == IndexOf(rest, "-")
    IN  IF j = 0 THEN rest ELSE SubSeq(rest, 1, j - 1)

\* The span an emitting step closes: the open span, plus the closing token
\* when that token is not "O".
ClosedSpan ==
    LET tok == cTokens[cPos + 1]
    IN  IF tok.Label # O THEN Append(parts, tok) ELSE parts

\* C2 as claimed: the category of a closed span is PERSON exactly when the
\* span has 2 tokens and its FIRST label is B-PERSON, and otherwise the suffix
\* of the first token's label.
C2_Original ==
    [][ chunkEmit =>
          entities'[Len(entities')].Label =
              IF Len(ClosedSpan) = 2 /\ ClosedSpan[1].Label = B_PERSON
              THEN PERSON
              ELSE SuffixAfterDash(ClosedSpan[1].Label) ]_vars

\* C2 as amended: the category of a closed span is PERSON when the span has 2
\* tokens and EITHER label is B-PERSON, and otherwise the suffix of the first
\* token's label.
C2_CategoryOfSpan ==
    [][ chunkEmit =>
          entities'[Len(entities')].Label =
              IF Len(ClosedSpan) = 2
                 /\ (ClosedSpan[1].Label = B_PERSON \/ ClosedSpan[2].Label = B_PERSON)
              THEN PERSON
              ELSE SuffixAfterDash(ClosedSpan[1].Label) ]_vars

\* C2 witness: the span [B-ORG, B-PERSON] has been emitted as PERSON.
C2_Witness ==
    /\ cPc = "done"
    /\ Len(cTokens) = 3
    /\ cTokens[1].Label = BLabel(ORG)
    /\ cTokens[2].Label = B_PERSON
    /\ cTokens[3].Label = O
    /\ Len(entities) = 1
    /\ entities[1].Label = PERSON



(***************************************************************************)
(* Properties of Tag.                                                      *)
(***************************************************************************)

\* The seven rules of Tag, in the claimed order: whether rule r applies to a
\* word, and the tag it gives.
RuleApplies(r, m, word) ==
    CASE r = 1 -> word = << "-" >>
      [] r = 2 -> word \in emoticons
      [] r = 3 -> Len(word) > 0 /\ word[1] = "@"
      [] r = 4 -> noneMatch(word)
      [] r = 5 -> keepMatch(word)
      [] r = 6 -> word \in DOMAIN m.tagMap
      [] r = 7 -> TRUE

RuleTag(r, m, i, word) ==
    CASE r = 1 -> HYPHEN
      [] r = 2 -> SYM
      [] r = 3 -> NN
      [] r = 4 -> NONE
      [] r = 5 -> word
      [] r = 6 -> m.tagMap[word]
      [] r = 7 -> predict(m, featurize(i, context, word, p1, p2))

FirstRule(m, word) ==
    CHOOSE r \in 1..7 :
        RuleApplies(r, m, word) /\ \A q \in 1..(r - 1) : ~RuleApplies(q, m, word)

PrevTag(toks, i) == IF i = 0 THEN START ELSE toks[i].Tag
PrevPrevTag(toks, i) ==
    IF i = 0 THEN START2 ELSE IF i = 1 THEN START ELSE toks[i - 1].Tag

\* The weight of class c for feature slot k: 0 for a feature the weight table
\* lacks.
SlotWeight(m, feats, k, c) ==
    IF feats[k] \in DOMAIN m.linearWeights THEN m.linearWeights[feats[k]][c] ELSE 0

\* The score of class c: the sum of its weights over the slots 1..n.
RECURSIVE SlotSum(_, _, _, _)
SlotSum(m, feats, c, n) ==
    IF n = 0 THEN 0 ELSE SlotSum(m, feats, c, n - 1) + SlotWeight(m, feats, n, c)

ClassScore(m, feats, c) == SlotSum(m, feats, c, 14)

\* Class c has the highest score, and is the earliest class that has it.
EarliestBest(m, feats, c) ==
    \A d \in 1..Len(m.classes) :
        /\ ClassScore(m, feats, d) <= ClassScore(m, feats, c)
        /\ d < c => ClassScore(m, feats, d) < ClassScore(m, feats, c)

\* C11: when the model decides a token's tag, predict returns the class whose
\* score, the sum over the 14 feature slots of the class's weight for the
\* feature (0 for a feature absent from the table), is highest; of several
\* classes with the highest score, the earliest in the class list.
C11_PredictEarliestArgMax ==
    [][ tagStep /\ FirstRule(tagger, tTokens[tPos + 1].Text) = 7 =>
          LET feats == featurize(tPos, context, tTokens[tPos + 1].Text, p1, p2)
          IN  \E c \in 1..Len(tagger.classes) :
                  /\ tTokens'[tPos + 1].Tag = tagger.classes[c]
                  /\ EarliestBest(tagger, feats, c) ]_vars

\* The model has just decided a token between two classes tied for the
\* highest score, neither the first of the class list.
C11_Witness ==
    /\ tPos > 0
    /\ FirstRule(tagger, tTokens[tPos].Text) = 7
    /\ LET feats == featurize(tPos - 1, context, tTokens[tPos].Text,
                              PrevTag(tTokens, tPos - 1), PrevPrevTag(tTokens, tPos - 1))
       IN  \E c, d \in 2..Len(tagger.classes) :
              /\ c < d
              /\ tTokens[tPos].Tag = tagger.classes[c]
              /\ EarliestBest(tagger, feats, c)
              /\ ClassScore(tagger, feats, d) = ClassScore(tagger, feats, c)

\* C12: Tag processes the tokens in index order, and when it comes to token
\* i, p1 is the tag it gave token i-1 and p2 the tag it gave token i-2, by
\* whichever rule ("-START-" and "-START2-" for i = 0, p2 = "-START-" for
\* i = 1); a tag the model decides is predicted from the features built with
\* these.
C12_PreviousTagsFeedFeatures ==
    [][ tagStep =>
          LET word == tTokens[tPos + 1].Text
              q1 == PrevTag(tTokens, tPos)
              q2 == PrevPrevTag(tTokens, tPos)
          IN  /\ p1 = q1
              /\ p2 = q2
              /\ tPos' = tPos + 1
              /\ \A k \in 1..Len(tTokens) : k # tPos + 1 => tTokens'[k] = tTokens[k]
              /\ FirstRule(tagger, word) = 7 =>
                    tTokens'[tPos + 1].Tag =
                        predict(tagger, featurize(tPos, context, word, q1, q2))
              /\ p1' = tTokens'[tPos + 1].Tag
              /\ p2' = q1 ]_vars

\* Tag has returned for three tokens, the first tagged by the dictionary, the
\* second by an override rule, and the third by the model, whose prediction
\* the first token's tag (not NNP) decided.
C12_Witness ==
    /\ tPc = "done"
    /\ Len(tTokens) = 3
    /\ FirstRule(tagger, tTokens[1].Text) = 6
    /\ FirstRule(tagger, tTokens[2].Text) = 2
    /\ FirstRule(tagger, tTokens[3].Text) = 7
    /\ tTokens[3].Tag = NN
    /\ predict(tagger, featurize(2, context, tTokens[3].Text, SYM, NNP)) = NNP

(***************************************************************************)
(* Properties of classify.                                                 *)
(***************************************************************************)

\* Label number c of the classifier has the highest of the scores, and is
\* the earliest label of the list that has it.
EarliestBestLabel(m, scores, c) ==
    \A d \in 1..Len(m.labels) :
        /\ Le(scores[m.labels[d]], scores[m.labels[c]])
        /\ d < c => Lt(scores[m.labels[d]], scores[m.labels[c]])

\* C13: classify gives each token the label with the highest raw score over
\* the plain encoding, and of several labels with the highest score the one
\* the label list fixes (the earliest), so that every run gives the same
\* labels.
C13_ClassifyDeterministic ==
    [][ classifyStep =>
          LET r == classifyScores(kModel, extract(kPos, kTokens, kHistory))
          IN  \E c \in 1..Len(kModel.labels) :
                  /\ kTokens'[kPos + 1].Label = kModel.labels[c]
                  /\ EarliestBestLabel(kModel, r.scores, c) ]_vars

(***************************************************************************)
(* Properties of the vocabulary.                                           *)
(***************************************************************************)

\* The joint key of a (feature-name, feature-value, label) triple.
KeyOf(t) == t[1] \o << "-" >> \o t[2] \o << "-" >> \o t[3]

\* The triples of the first n entries of c, in scan order: entries in corpus
\* order, slots in featureOrder order.
ScannedTriples(c, n) ==
    [k \in 1..(n * Len(featureOrder)) |->
        LET e == ((k - 1) \div Len(featureOrder)) + 1
            i == ((k - 1) % Len(featureOrder)) + 1
        IN  << featureOrder[i], c[e].features[i], c[e].label >>]

\* The distinct elements of a sequence, in the order of their first
\* occurrence.
FirstSeen(seq) ==
    LET F[k \in 0..Len(seq)] ==
            IF k = 0 THEN <<>>
            ELSE IF \E j \in 1..(k - 1) : seq[j] = seq[k] THEN F[k - 1]
            ELSE Append(F[k - 1], seq[k])
    IN  F[Len(seq)]

\* The slots of a feature tuple whose joint key with the label is in the
\* mapping, in slot order.
PresentSlots(m, f, l) ==
    SelectSeq([i \in 1..Len(featureOrder) |-> i],
              LAMBDA i : KeyOf(<< featureOrder[i], f[i], l >>) \in DOMAIN m.mapping)

\* One entry (mapping[key], 1) per present slot.
PlainEncoding(m, f, l) ==
    LET ps == PresentSlots(m, f, l)
    IN  [k \in 1..Len(ps) |->
            [key |-> m.mapping[KeyOf(<< featureOrder[ps[k]], f[ps[k]], l >>)],
             value |-> 1]]

SumValues(enc) ==
    LET S[k \in 0..Len(enc)] == IF k = 0 THEN 0 ELSE S[k - 1] + enc[k].value
    IN  S[Len(enc)]

\* C7: a call of encode(features, label) leaves the vocabulary mapping as it
\* was (same keys, same indices), and returns exactly one entry
\* (mapping[key], 1) for each slot whose joint key name-value-label is in the
\* mapping, and none for a slot whose key is absent.
C7_EncodeKeepsVocabulary ==
    [][ calls' = calls + 1 /\ call'.op = "encode" =>
          /\ classifier'.mapping = classifier.mapping
          /\ encoded' = PlainEncoding(classifier, call'.features, call'.label) ]_vars

\* A second call, made with a scratch buffer left by the first, that found
\* some of the 17 keys and missed others.
C7_Witness ==
    /\ call.op = "encode"
    /\ calls = MaxCalls
    /\ Len(encoded) > 0
    /\ Len(encoded) < Len(featureOrder)

\* C8: a call of encodeGIS(features, label) returns the plain encoding
\* followed by exactly one correction entry, at index |vocabulary| and with
\* value cardinality - (number of fired indicators), so that the values sum
\* to cardinality.
C8_GISCorrectionEntry ==
    [][ calls' = calls + 1 /\ call'.op = "encodeGIS" =>
          LET plain == PlainEncoding(classifier, call'.features, call'.label)
          IN  /\ encoded' = Append(plain,
                                   [key |-> Cardinality(DOMAIN classifier.mapping),
                                    value |-> classifier.cardinality - Len(plain)])
              /\ SumValues(encoded') = classifier.cardinality ]_vars

\* An encodeGIS call in which some indicators fired.
C8_Witness ==
    /\ call.op = "encodeGIS"
    /\ Len(encoded) > 1
    /\ encoded[Len(encoded)].value < classifier.cardinality
    /\ encoded[Len(encoded)].value > 1

\* C9: while encode(corpus) scans, and when it returns, the k-th distinct
\* (feature-name, feature-value, true-label) triple in scan order has index
\* k - 1, the indices are exactly 0..n-1, and the label list holds the
\* distinct labels in first-seen order.
C9_FirstSeenIndices ==
    vPc \in { "build", "ready" } =>
        LET d == FirstSeen(ScannedTriples(corpus, vPos))
            m == IF vPc = "ready" THEN classifier.mapping ELSE vState.mapping
            ls == IF vPc = "ready" THEN classifier.labels ELSE vState.labels
        IN  /\ Cardinality(DOMAIN m) = Len(d)
            /\ \A k \in 1..Len(d) : KeyOf(d[k]) \in DOMAIN m /\ m[KeyOf(d[k])] = k - 1
            /\ { m[x] : x \in DOMAIN m } = 0..(Len(d) - 1)
            /\ ls = FirstSeen([k \in 1..vPos |-> corpus[k].label])

\* encode(corpus) has returned for a corpus in which triples and labels
\* repeat.
C9_Witness ==
    /\ vPc = "ready"
    /\ Len(corpus) > 2
    /\ Cardinality(DOMAIN classifier.mapping) < Len(corpus) * Len(featureOrder)
    /\ Len(classifier.labels) > 1
    /\ Len(classifier.labels) < Len(corpus)

(***************************************************************************)
(* Properties of GIS training.                                             *)
(***************************************************************************)

\* C3: in extracterFromData, every index whose empirical count is zero has
\* weight -Inf before the first round and after each of the 100 rounds.
C3_UnattestedStayInf ==
    gPc \in { "round", "trained", "done" } =>
        \A i \in 1..Len(empfreq) :
            empfreq[i] = NInf => gModel.weights[i] = NInf

\* Training has run its 100 rounds with an index whose empirical count is
\* zero.
C3_Witness ==
    /\ gPc = "done"
    /\ gRound = Rounds
    /\ \E i \in 1..Len(empfreq) : empfreq[i] = NInf /\ gModel.weights[i] = NInf

\* C20 as stated: before the first round the weight of every attested
\* index is the log2 of its empirical count, which empfreq holds, and that
\* of every unattested index is -Inf, which is log2(0).
C20_WeightsStartAtLogEmpirical ==
    gPc = "round" /\ gRound = 0 =>
        /\ Len(gModel.weights) = Len(empfreq)
        /\ \A i \in 1..Len(empfreq) : gModel.weights[i] = empfreq[i]

\* C20 amended: before the first round the weight of every attested index
\* is 0 and that of every unattested index is -Inf.
C20_WeightsStartAtZero ==
    gPc = "round" /\ gRound = 0 =>
        /\ Len(gModel.weights) = Len(empfreq)
        /\ \A i \in 1..Len(empfreq) :
              gModel.weights[i] = IF empfreq[i] = NInf THEN NInf ELSE Zero

\* C20 witness: before the first round an index whose empirical count is
\* above 1, so that its log2 is not 0, has weight 0.
C20_Witness ==
    /\ gPc = "round"
    /\ gRound = 0
    /\ \E i \in 1..Len(empfreq) :
          empfreq[i] \notin { NInf, Zero } /\ gModel.weights[i] = Zero

\* C14: two independent runs of extracterFromData on the same corpus return
\* bit-identical weight vectors.
C14_RunsBitIdentical ==
    runPc = "done" => runs[1].m.weights = runs[2].m.weights

(***************************************************************************)
(* Properties of the log2-space probabilities.                             *)
(***************************************************************************)

\* |a| for a float.
FAbs(a) == IF IsNaN(a) THEN NaN ELSE [a EXCEPT !.m = Abs(a.m)]

\* The larger of two floats.
FMax(a, b) == IF Lt(a, b) THEN b ELSE a

\* The tolerance of a comparison: sixteen units in the last place.
Tolerance == Round(1, 4 - MantBits)

\* a equals b within tolerance, relative for numbers beyond 1.
Within(a, b) ==
    \/ Eq(a, b)
    \/ /\ IsFinite(a)
       /\ IsFinite(b)
       /\ Le(FAbs(Sub(a, b)), Mul(Tolerance, FMax(One, FMax(FAbs(a), FAbs(b)))))

\* The sum of prob(label) over the labels ls[k..].
RECURSIVE ProbSum(_, _, _)
ProbSum(dist, ls, k) ==
    IF k > Len(ls) THEN Zero ELSE Add(prob(dist, ls[k]), ProbSum(dist, ls, k + 1))

\* C4: for any feature tuple and any classifier with at least one label, the
\* probabilities of the distribution probClassify returns sum to 1.0 within
\* tolerance.
C4_ProbabilitiesSumToOne ==
    lPc = "done" /\ lOp = "probClassify" =>
        Within(ProbSum(lDist, lModel.labels, 1), One)

\* C5: when every score is -Inf, newMappedProbDist returns the uniform
\* distribution, log2(1/|labels|) for each label; and no probability it
\* returns is ever NaN.
C5_UniformFallback ==
    lPc = "done" /\ lOp = "newMappedProbDist" =>
        /\ \A l \in DOMAIN lDist.dict : ~IsNaN(lDist.dict[l].prob)
        /\ (\A l \in DOMAIN lDict : lDict[l].prob = NInf) =>
              \A l \in DOMAIN lDist.dict :
                  lDist.dict[l].prob = Log2(Div(One, FromInt(Cardinality(DOMAIN lDict))))

\* C6: addLogs(x, y) == addLogs(y, x); when |x - y| is at most
\* |log2(1e-30)| the result is log2(2^x + 2^y) within tolerance, and when it
\* is larger the result is exactly max(x, y).
C6_AddLogsCommutes ==
    lPc = "done" /\ lOp = "addLogs" =>
        /\ Eq(lSum, addLogs(ly, lx))
        /\ IF Le(FAbs(Sub(lx, ly)), FAbs(maxLogDiff))
           THEN Within(lSum, Log2(Add(Pow2(lx), Pow2(ly))))
           ELSE Eq(lSum, FMax(lx, ly))

(***************************************************************************)
(* Properties of persistence.                                              *)
(***************************************************************************)

\* p is a file of fs holding a gob value of the given type.
GoodFile(fs, p, type) == p \in DOMAIN fs /\ ~fs[p].dir /\ fs[p].content.type = type

\* The three classifier files are in the Maxent directory under base, each
\* decodable as its field.
GoodAt(fs, base) ==
    /\ GoodFile(fs, base \o << MaxentDir, "mapping.gob" >>, TypeMapping)
    /\ GoodFile(fs, base \o << MaxentDir, "weights.gob" >>, TypeWeights)
    /\ GoodFile(fs, base \o << MaxentDir, "labels.gob" >>, TypeLabels)

\* The classifier c holds what the three files under base hold.
LoadedFrom(fs, base, c) ==
    /\ GoodAt(fs, base)
    /\ c.mapping = fs[base \o << MaxentDir, "mapping.gob" >>].content.value[1]
    /\ c.weights = fs[base \o << MaxentDir, "weights.gob" >>].content.value[1]
    /\ c.labels = fs[base \o << MaxentDir, "labels.gob" >>].content.value[1]

AssetsGood == assetsOk(assets)

\* The directories the last load may have read the classifier from: the
\* path given to ModelFromDisk, an entry with the name given to ModelFromFS.
LoadCandidates ==
    IF dCall.op = "ModelFromDisk" THEN { dCall.arg }
    ELSE { p \in DOMAIN fsys : EntryName(p) = dCall.arg[1] }

\* C15: loading is all-or-nothing.  ModelFromDisk and ModelFromFS return
\* either a Model and a nil error or a nil Model and an error; they return
\* nil and an error when a tagger asset is missing or malformed, when the
\* Maxent directory or one of mapping.gob, weights.gob, labels.gob is missing
\* or does not decode, and (ModelFromFS) when no entry has the name; a Model
\* that is returned holds the contents of all three files.
C15_LoadAllOrNothing ==
    dCall.op \in { "ModelFromDisk", "ModelFromFS" } =>
        /\ (dRet.model = nil) <=> (dRet.err # nil)
        /\ (~AssetsGood \/ \A p \in LoadCandidates : ~GoodAt(fsys, p)) =>
              dRet.model = nil /\ dRet.err # nil
        /\ dRet.model # nil =>
              /\ dRet.model[1].tagger # nil
              /\ dRet.model[1].extracter # nil
              /\ \E p \in LoadCandidates :
                    LoadedFrom(fsys, p, dRet.model[1].extracter[1].model)

\* C15 witness: ModelFromDisk("PRODUCT") with good tagger assets, mapping.gob
\* and labels.gob, and a weights.gob that does not decode, returned nil and
\* an error.
C15_Witness ==
    /\ dCall.op = "ModelFromDisk"
    /\ dCall.arg = << "PRODUCT" >>
    /\ AssetsGood
    /\ GoodFile(fsys, << "PRODUCT", MaxentDir, "mapping.gob" >>, TypeMapping)
    /\ GoodFile(fsys, << "PRODUCT", MaxentDir, "labels.gob" >>, TypeLabels)
    /\ << "PRODUCT", MaxentDir, "weights.gob" >> \in DOMAIN fsys
    /\ ~GoodFile(fsys, << "PRODUCT", MaxentDir, "weights.gob" >>, TypeWeights)
    /\ dRet.model = nil
    /\ dRet.err # nil

\* C19: Write(path) to a location where nothing was, followed by
\* ModelFromDisk(path), both succeed; the Model returned is named by the last
\* element of path and its classifier has the label list, the mapping and
\* the weights of the model written.
C19_WriteThenLoad ==
    [][ /\ dCall.op = "Write"
        /\ dCall.fresh
        /\ diskModelFromDisk
        /\ dCall'.arg = dCall.arg
        => /\ dRet.err = nil
           /\ dRet'.err = nil
           /\ dRet'.model # nil
           /\ dRet'.model[1].Name = dCall.arg[Len(dCall.arg)]
           /\ LET written == held[1].extracter[1].model
                  loaded == dRet'.model[1].extracter[1].model
              IN  /\ loaded.labels = written.labels
                  /\ loaded.mapping = written.mapping
                  /\ loaded.weights = written.weights ]_vars

\* C19 witness: ModelFromDisk("testdata/temp"), a location that holds only
\* what a Write put there, returned a Model named "temp" with the weights of
\* the model held.
C19_Witness ==
    /\ dCall.op = "ModelFromDisk"
    /\ dCall.arg = << "testdata", "temp" >>
    /\ dRet.err = nil
    /\ dRet.model # nil
    /\ dRet.model[1].Name = "temp"
    /\ held # nil
    /\ dRet.model[1].extracter[1].model.weights = held[1].extracter[1].model.weights

(***************************************************************************)
(* Properties of assignLabels.                                             *)
(***************************************************************************)

\* C16: for a record with Accept = false assignLabels labels every token
\* "O" whatever its spans, and the record's examples in the corpus are all
\* labeled "O".
C16_RejectedRecordAllO ==
    ~aEntity.Accept =>
        /\ aPc \in { "extract", "done" } =>
              /\ Len(aHistory) = Len(aTokens)
              /\ \A i \in 1..Len(aHistory) : aHistory[i] = O
        /\ aPc = "done" =>
              /\ Len(aCorpus) = Len(aTokens)
              /\ \A k \in 1..Len(aCorpus) : aCorpus[k].label = O

\* C16 witness: a rejected record whose span covers its first token exactly
\* has contributed its examples.
C16_Witness ==
    /\ aPc = "done"
    /\ ~aEntity.Accept
    /\ Len(aEntity.Spans) = 1
    /\ aEntity.Spans[1].Start = 0
    /\ aEntity.Spans[1].End = Len(aTokens[1].Text)
    /\ Len(aCorpus) > 0

\* The index in text of its n-th character that is not a space, from 0.
RECURSIVE OffsetOf(_, _, _)
OffsetOf(text, n, from) ==
    IF IsSpace(text[from + 1]) THEN OffsetOf(text, n, from + 1)
    ELSE IF n = 0 THEN from
    ELSE OffsetOf(text, n - 1, from + 1)

\* The number of characters of the tokens before token i.
RECURSIVE LenBefore(_, _)
LenBefore(tokens, i) ==
    IF i = 1 THEN 0 ELSE LenBefore(tokens, i - 1) + Len(tokens[i - 1].Text)

\* The characters of text that token i covers: TokenStart up to, not
\* including, TokenEnd.
TokenStart(text, tokens, i) == OffsetOf(text, LenBefore(tokens, i), 0)
TokenEnd(text, tokens, i) == OffsetOf(text, LenBefore(tokens, i + 1) - 1, 0) + 1

Overlaps(text, tokens, span, i) ==
    span.Start < TokenEnd(text, tokens, i) /\ TokenStart(text, tokens, i) < span.End

\* pos falls strictly inside token i.
Inside(text, tokens, pos, i) ==
    TokenStart(text, tokens, i) < pos /\ pos < TokenEnd(text, tokens, i)

\* C17: for an accepted record whose span starts or ends strictly inside a
\* token, every token overlapping the span is labeled, the first of them
\* B-<label> and the rest I-<label>.
C17_SpanRemappedToEnclosingTokens ==
    /\ aPc \in { "extract", "done" }
    /\ aEntity.Accept
    /\ Len(aEntity.Spans) = 1
    /\ \E i \in 1..Len(aTokens) :
          \/ Inside(aEntity.Text, aTokens, aEntity.Spans[1].Start, i)
          \/ Inside(aEntity.Text, aTokens, aEntity.Spans[1].End, i)
    => LET span == aEntity.Spans[1]
           over == { i \in 1..Len(aTokens) : Overlaps(aEntity.Text, aTokens, span, i) }
       IN  \A i \in over :
              aHistory[i] = IF \A j \in over : i <= j THEN BLabel(span.Label)
                            ELSE ILabel(span.Label)

(***************************************************************************)
(* Properties of concurrent inference.                                     *)
(***************************************************************************)

\* C18: when two calls run concurrently on one classifier, the key each
\* looks up is name + "-" + value + "-" + label of its own arguments, and
\* neither fails.
C18_KeyOfOwnArguments ==
    \A g \in DOMAIN jPc :
        /\ jPc[g] # "panic"
        /\ jPc[g] = "done" =>
              jRes[g] = Join(<< jArgs[g].a, jArgs[g].b, jArgs[g].c >>, << "-" >>)

(***************************************************************************)
(* Properties of chunk's walk.                                             *)
(***************************************************************************)

\* The positions of a run are consecutive.
Contiguous(run) == \A k \in 1..(Len(run) - 1) : run[k + 1] = run[k] + 1

\* The number of emitted entities that hold the token at position i.
TimesEmitted(i) ==
    Cardinality({ << e, k >> \in (1..Len(emitted)) \X (1..Len(cTokens)) :
                    k <= Len(emitted[e]) /\ emitted[e][k] = i })

\* C23: when chunk returns, every token whose label is not "O" is in exactly
\* one emitted entity, an entity still open at the end of the tokens
\* included.
C23_EveryLabeledTokenEmitted ==
    cPc = "done" =>
        \A i \in 1..Len(cTokens) : cTokens[i].Label # O => TimesEmitted(i) = 1

\* Tokens labeled B-X, I-X, I-X and then O.
BIIORun(toks, cat) ==
    /\ Len(toks) = 4
    /\ toks[1].Label = BLabel(cat)
    /\ toks[2].Label = ILabel(cat)
    /\ toks[3].Label = ILabel(cat)
    /\ toks[4].Label = O

\* C24: a run B-X, I-X, I-X followed by O is emitted as one single entity
\* covering the three tokens, whatever their POS tags.
C24_RunIsOneEntity ==
    \A cat \in Categories :
        cPc = "done" /\ BIIORun(cTokens, cat) =>
            /\ emitted = << << 1, 2, 3 >> >>
            /\ entities = << coalesce(SubSeq(cTokens, 1, 3)) >>

\* C25: at every step of chunk's walk idx is the number of tokens in the
\* open span, which are the idx tokens before the current one; the span is
\* empty exactly when the expected continuation label is; a token is skipped
\* only while no span is open; and an emitted entity is coalesce of a
\* non-empty run of consecutive tokens that starts with a token not labeled
\* "O" and lies after every entity emitted before.
C25_ChunkWalk ==
    [][ chunkNext =>
          /\ idx = Len(parts)
          /\ partsAt = [k \in 1..idx |-> cPos - idx + k]
          /\ parts = [k \in 1..idx |-> cTokens[partsAt[k]]]
          /\ (parts = <<>>) <=> (end = <<>>)
          /\ chunkSkip => parts = <<>>
          /\ chunkEmit =>
                LET run == emitted'[Len(emitted')]
                IN  /\ Len(emitted') = Len(emitted) + 1
                    /\ Len(entities') = Len(emitted')
                    /\ run # <<>>
                    /\ Contiguous(run)
                    /\ cTokens[run[1]].Label # O
                    /\ run[Len(run)] \in { cPos, cPos + 1 }
                    /\ \A e \in 1..Len(emitted) :
                          emitted[e][Len(emitted[e])] < run[1]
                    /\ entities'[Len(entities')] =
                          coalesce([k \in 1..Len(run) |-> cTokens[run[k]]]) ]_vars

\* C25 witness: chunk has returned after emitting two entities, the first
\* closed by its own last token and the second by the "O" token after it.
C25_Witness ==
    /\ cPc = "done"
    /\ Len(cTokens) = 4
    /\ emitted = << << 1, 2 >>, << 3 >> >>
    /\ Len(entities) = 2

(***************************************************************************)
(* Properties of the NER features.                                         *)
(***************************************************************************)

\* C21: the features classify extracts for token i > 0 are those training
\* extracts from the same label sequence, where the history holds the full
\* label of every token.
C21_SameFeaturesAsTraining ==
    \A i \in 1..(Len(kTokens) - 1) :
        i <= kPos =>
            extract(i, kTokens, kHistory)
                = extract(i, kTokens, [k \in 1..kPos |-> kTokens[k].Label])

\* C22: in the feature tuple of every token the slot "en-wordlist" holds
\* isBasic(word), "True" or "False", and the slot "nextpos" holds the next
\* token's POS (in lower case) or the sentinel.
C22_WordListSlot ==
    aPc = "done" =>
        \A k \in 1..Len(aCorpus) :
            /\ featureOrder[2] = << "e", "n", "-", "w", "o", "r", "d", "l", "i", "s", "t" >>
            /\ aCorpus[k].features[2] = isBasic(aTokens[k].Text)
            /\ aCorpus[k].features[3] =
                  IF k = Len(aTokens) THEN NoneFeat ELSE ToLower(aTokens[k + 1].Tag)

\* C29: the classifier built from a non-empty corpus has cardinality 18,
\* every example encoded with its own label fires 17 indicators and has
\* correction value 1, every index has empirical count at least 1 and no
\* index is unattested; the empty corpus has an unattested index.
C29_NonEmptyCorpusFullyAttested ==
    gPc = "round" /\ gRound = 0 =>
        IF gCorpus = <<>>
        THEN unattested # <<>>
        ELSE /\ gModel.cardinality = 18
             /\ unattested = <<>>
             /\ Len(empfreq) = Cardinality(DOMAIN gModel.mapping) + 1
             /\ \A i \in 1..Len(empfreq) : Le(Zero, empfreq[i])
             /\ \A k \in 1..Len(gCorpus) :
                   LET enc == encodeGIS(gModel, gCorpus[k].features, gCorpus[k].label).encoding
                   IN  /\ Len(enc) = 18
                       /\ \A j \in 1..17 : enc[j].value = 1
                       /\ Cardinality({ enc[j].key : j \in 1..17 }) = 17
                       /\ enc[18] = [key |-> Cardinality(DOMAIN gModel.mapping), value |-> 1]

\* C29 witness: training on a two-token sentence is about to start its first
\* round with every index attested.
C29_Witness ==
    /\ gPc = "round"
    /\ gRound = 0
    /\ Len(gCorpus) = 2
    /\ gModel.cardinality = 18
    /\ unattested = <<>>

\* C30: Write returns a nil error whenever the three files of the model
\* written are under path/Maxent afterwards, also when path/Maxent was there
\* before.
C30_WriteSucceedsWhenWritten ==
    dCall.op = "Write" /\ LoadedFrom(fsys, dCall.arg, held[1].extracter[1].model) =>
        dRet.err = nil

(***************************************************************************)
(* Properties of the tokenizer.                                            *)
(***************************************************************************)

\* C26: in the sequence Tokenize returns no Token occurs at two positions,
\* so that after Tag returns each position's Tag is the tag chosen when that
\* position was processed.
C26_NoTokenAtTwoPositions ==
    xPc = "done" =>
        /\ \A i, j \in 1..Len(xToks) : i # j => xToks[i] # xToks[j]
        /\ \A i \in 1..Len(xToks) : xHeap[xToks[i]].Tag = xChosen[i]

\* C27: doSplit loses no text: the texts of the tokens it returns, joined in
\* order, are the span.
C27_NoTextLost == sPc = "done" => Join(sOut, << >>) = sSpan

=============================================================================
